---- MODULE Spec2Model ----
(***************************************************************************)
(* Op graph, optimizer passes and cluster builder of descent               *)
(* (src/src/graph.rs), fed by graphs recorded by the builder               *)
(* (src/src/array.rs).                                                     *)
(***************************************************************************)
EXTENDS Integers, Sequences, FiniteSets, TLC

(***************************************************************************)
(* Generic helpers                                                         *)
(***************************************************************************)
Range(s) == {s[i] : i \in DOMAIN s}

Reverse(s) == [i \in 1..Len(s) |-> s[Len(s) + 1 - i]]


(***************************************************************************)
(* Shape and View.  A view is held as the function it denotes: idx[i] is   *)
(* the (1-based, row-major) input element read for output element i.       *)
(***************************************************************************)
RECURSIVE element_count(_)
element_count(shape) ==
    IF shape = <<>> THEN 1 ELSE Head(shape) * element_count(Tail(shape))

identity_view(shape) ==
    [input_shape |-> shape, output_shape |-> shape,
     idx |-> [i \in 1..element_count(shape) |-> i]]

broadcast_with(a, b) == IF element_count(a) >= element_count(b) THEN a ELSE b

view_broadcast(src, dst) ==
    [input_shape |-> src, output_shape |-> dst,
     idx |-> [i \in 1..element_count(dst) |->
                 IF element_count(src) = 1 THEN 1 ELSE i]]

view_new_limited(shape, coord) ==
    [input_shape |-> shape, output_shape |-> <<1>>, idx |-> <<coord + 1>>]

through(v, other, can_reshape) ==
    [input_shape |-> v.input_shape, output_shape |-> other.output_shape,
     idx |-> [i \in DOMAIN other.idx |-> v.idx[other.idx[i]]]]

\* Option<View>: <<>> is None, <<v>> is Some(v)
try_from_reshape(src, dst) ==
    IF element_count(src) = element_count(dst)
    THEN << [input_shape |-> src, output_shape |-> dst,
             idx |-> [i \in 1..element_count(dst) |-> i]] >>
    ELSE <<>>

view_is_broadcast(v) == \E i, j \in DOMAIN v.idx : i # j /\ v.idx[i] = v.idx[j]

view_has_step(v) == \E i \in DOMAIN v.idx : i > 1 /\ v.idx[i] - v.idx[i - 1] > 1

can_view_through(v, other, can_reshape) ==
    /\ \/ v.output_shape = other.input_shape
       \/ can_reshape /\ element_count(v.output_shape) = element_count(other.input_shape)
    /\ ~(view_has_step(v) /\ view_is_broadcast(other))

view_is_per_element(v) ==
    /\ element_count(v.input_shape) = element_count(v.output_shape)
    /\ \A i \in DOMAIN v.idx : v.idx[i] = i

(***************************************************************************)
(* Op                                                                      *)
(***************************************************************************)
MkOp(kind, arg) == [kind |-> kind, arg |-> arg]

OpMov == MkOp("Unary", "Mov")

is_per_element(op) == op.kind \in {"Unary", "Binary", "CompareAndSelect", "Gather"}

is_gather_arg(op, arg) == op.kind = "Gather" /\ arg = 0

can_reshape(op) == op.kind \in {"Unary", "Binary", "CompareAndSelect", "Literal"}

can_merge(op) == op.kind # "Output"

\* Op::BuiltIn(BuiltInOp::Rand { uid }); two such ops are equal iff their uids are
BuiltInOp_Rand(uid) == MkOp("BuiltIn", <<"Rand0", "Rand1", "Rand2", "Rand3">>[uid + 1])

RandOps == {BuiltInOp_Rand(uid) : uid \in 0..3}

output_parameter_id(op) == IF op.kind = "Output" THEN <<op.arg>> ELSE <<>>

edge_is_per_element(edge, op) ==
    ~is_gather_arg(op, edge.arg) /\ view_is_per_element(edge.view)

(***************************************************************************)
(* OpGraph: petgraph StableDiGraph<OpNode, OpEdge>.  Node and edge slots    *)
(* are reused from a free list; adjacency lists hold the newest edge first. *)
(***************************************************************************)
VacantNode == [op |-> MkOp("Vacant", "-"), shape |-> <<>>, cluster_id |-> 0]

VacantEdge == [src |-> 0, dst |-> 0, arg |-> 0, view |-> identity_view(<<>>)]

EmptyGraph ==
    [nodes |-> <<>>, free_node |-> <<>>, edges |-> <<>>, free_edge |-> <<>>,
     adj |-> <<>>]

MkNode(shape, op) == [op |-> op, shape |-> shape, cluster_id |-> 0]

contains_node(G, n) == n \in DOMAIN G.nodes /\ G.nodes[n] # VacantNode

node_ids(G) == {n \in DOMAIN G.nodes : G.nodes[n] # VacantNode}

node_count(G) == Cardinality(node_ids(G))

edge_ids(G) == {e \in DOMAIN G.edges : G.edges[e] # VacantEdge}

next_node_id(G) == IF G.free_node # <<>> THEN Head(G.free_node) ELSE Len(G.nodes) + 1

add_node(G, w) ==
    IF G.free_node # <<>>
    THEN [G EXCEPT !.nodes[Head(G.free_node)] = w, !.free_node = Tail(G.free_node)]
    ELSE [G EXCEPT !.nodes = Append(G.nodes, w)]

add_edge(G, a, b, w) ==
    LET e == [src |-> a, dst |-> b, arg |-> w.arg, view |-> w.view] IN
    IF G.free_edge # <<>>
    THEN [G EXCEPT !.edges[Head(G.free_edge)] = e, !.free_edge = Tail(G.free_edge),
                   !.adj = <<Head(G.free_edge)>> \o G.adj]
    ELSE [G EXCEPT !.edges = Append(G.edges, e),
                   !.adj = <<Len(G.edges) + 1>> \o G.adj]

remove_edge(G, e) ==
    [G EXCEPT !.edges[e] = VacantEdge, !.free_edge = <<e>> \o G.free_edge,
              !.adj = SelectSeq(G.adj, LAMBDA x : x # e)]

\* edges_directed(n, Incoming) / (n, Outgoing): edge ids, newest first
edges_in(G, n) == SelectSeq(G.adj, LAMBDA e : G.edges[e].dst = n)

edges_out(G, n) == SelectSeq(G.adj, LAMBDA e : G.edges[e].src = n)

RECURSIVE remove_edges(_, _)
remove_edges(G, es) ==
    IF es = <<>> THEN G ELSE remove_edges(remove_edge(G, Head(es)), Tail(es))

remove_node(G, n) ==
    LET G1 == remove_edges(G, edges_out(G, n))
        G2 == remove_edges(G1, edges_in(G1, n))
    IN [G2 EXCEPT !.nodes[n] = VacantNode, !.free_node = <<n>> \o G2.free_node]

RECURSIVE retain_from(_, _, _)
retain_from(G, i, keep) ==
    IF i > Len(G.nodes) THEN G
    ELSE IF contains_node(G, i) /\ i \notin keep
         THEN retain_from(remove_node(G, i), i + 1, keep)
         ELSE retain_from(G, i + 1, keep)

retain_nodes(G, keep) == retain_from(G, 1, keep)

(***************************************************************************)
(* petgraph::visit::Topo                                                   *)
(***************************************************************************)
topo_initials(G) ==
    SelectSeq([i \in 1..Len(G.nodes) |-> i],
              LAMBDA n : contains_node(G, n) /\ edges_in(G, n) = <<>>)

RECURSIVE topo_walk(_, _, _)
topo_walk(G, tovisit, ordered) ==
    IF tovisit = <<>> THEN ordered
    ELSE LET nix  == tovisit[Len(tovisit)]
             rest == SubSeq(tovisit, 1, Len(tovisit) - 1)
         IN IF nix \in Range(ordered) THEN topo_walk(G, rest, ordered)
            ELSE LET ord2  == Append(ordered, nix)
                     outs  == edges_out(G, nix)
                     neigh == [i \in 1..Len(outs) |-> G.edges[outs[i]].dst]
                     ready == SelectSeq(neigh, LAMBDA m :
                                  \A e \in Range(edges_in(G, m)) :
                                      G.edges[e].src \in Range(ord2))
                 IN topo_walk(G, rest \o ready, ord2)

Topo(G) == topo_walk(G, topo_initials(G), <<>>)

(***************************************************************************)
(* Builder (Scope / Array).  A builder state holds the op graph under       *)
(* construction and the parameter tables; ret is the node of the array the  *)
(* call returns.                                                           *)
(***************************************************************************)
MaxDim == 2

Parameters == {"p1", "p2"}

parameter_shape(p) == IF p = "p1" THEN <<MaxDim>> ELSE <<1>>

NoInput == [value_node_id |-> 0, grad_node_id |-> 0]

Scope_new ==
    [ops |-> EmptyGraph,
     inputs |-> [p \in Parameters |-> NoInput],
     outputs |-> [p \in Parameters |-> 0],
     next_rand_uid |-> 0,
     ret |-> 0]

RECURSIVE add_input_edges(_, _, _, _)
add_input_edges(G, node_id, inputs, i) ==
    IF i > Len(inputs) THEN G
    ELSE add_input_edges(
             add_edge(G, inputs[i], node_id,
                      [arg |-> i - 1, view |-> identity_view(G.nodes[inputs[i]].shape)]),
             node_id, inputs, i + 1)

new_node(G, shape, op, inputs) ==
    add_input_edges(add_node(G, MkNode(shape, op)), next_node_id(G), inputs, 1)

\* Array::with_empty_grad: a Mov with no incoming edge as the gradient sink
with_empty_grad(st) ==
    [st EXCEPT !.ops = new_node(st.ops, st.ops.nodes[st.ret].shape, OpMov, <<>>)]

Scope_literal(st, value) ==
    with_empty_grad([st EXCEPT !.ops = new_node(st.ops, <<1>>, MkOp("Literal", value), <<>>),
                               !.ret = next_node_id(st.ops)])

Scope_literal_u32(st, value) ==
    [st EXCEPT !.ops = new_node(st.ops, <<1>>, MkOp("Literal", value), <<>>),
               !.ret = next_node_id(st.ops)]

Scope_coord(st, len) ==
    with_empty_grad([st EXCEPT !.ops = new_node(st.ops, <<len>>, MkOp("BuiltIn", "Coord"), <<>>),
                               !.ret = next_node_id(st.ops)])

\* variant: every call uses uid 0
Scope_rand_same_uid(st, shape) ==
    with_empty_grad([st EXCEPT !.ops = new_node(st.ops, shape, BuiltInOp_Rand(0), <<>>),
                               !.ret = next_node_id(st.ops)])

Scope_rand(st, shape) ==
    with_empty_grad([st EXCEPT !.ops = new_node(st.ops, shape,
                                                BuiltInOp_Rand(st.next_rand_uid), <<>>),
                               !.next_rand_uid = st.next_rand_uid + 1,
                               !.ret = next_node_id(st.ops)])

Scope_accumulator(st, shape) ==
    [st EXCEPT !.ops = new_node(st.ops, shape, OpMov, <<>>),
               !.ret = next_node_id(st.ops)]

Scope_input(st, p) ==
    IF st.inputs[p] # NoInput THEN st
    ELSE LET G1 == new_node(st.ops, parameter_shape(p), MkOp("Input", p), <<>>)
             G2 == new_node(G1, parameter_shape(p), OpMov, <<>>)
         IN [st EXCEPT !.ops = G2,
                       !.inputs[p] = [value_node_id |-> next_node_id(st.ops),
                                      grad_node_id |-> next_node_id(G1)]]

Scope_parameter_value(st, p) ==
    LET st1 == Scope_input(st, p) IN [st1 EXCEPT !.ret = st1.inputs[p].value_node_id]

Scope_write_parameter_value(st, p, rhs) ==
    LET G1  == new_node(st.ops, st.ops.nodes[rhs].shape, MkOp("Output", p), <<rhs>>)
        new == next_node_id(st.ops)
        G2  == IF st.outputs[p] # 0 THEN remove_node(G1, st.outputs[p]) ELSE G1
    IN [st EXCEPT !.ops = G2, !.outputs[p] = new,
                  !.inputs[p] = [value_node_id |-> rhs, grad_node_id |-> 0],
                  !.ret = rhs]

Array_view(st, a, view) ==
    LET G1 == new_node(st.ops, view.output_shape, OpMov, <<>>)
        id == next_node_id(st.ops)
    IN [st EXCEPT !.ops = add_edge(G1, a, id, [arg |-> 0, view |-> view]), !.ret = id]

Array_broadcast(st, a, shape) ==
    Array_view(st, a, view_broadcast(st.ops.nodes[a].shape, shape))

Array_unary_op(st, a, op) ==
    [st EXCEPT !.ops = new_node(st.ops, st.ops.nodes[a].shape, MkOp("Unary", op), <<a>>),
               !.ret = next_node_id(st.ops)]

Array_binary_op(st, a, b, op) ==
    LET op_shape == broadcast_with(st.ops.nodes[a].shape, st.ops.nodes[b].shape)
        st1 == Array_broadcast(st, a, op_shape)
        st2 == Array_broadcast(st1, b, op_shape)
    IN [st2 EXCEPT !.ops = new_node(st2.ops, op_shape, MkOp("Binary", op), <<st1.ret, st2.ret>>),
                   !.ret = next_node_id(st2.ops)]

Array_limit_axis(st, a, coord) ==
    Array_view(st, a, view_new_limited(st.ops.nodes[a].shape, coord))

Array_reshape(st, a, shape) ==
    [st EXCEPT !.ops = new_node(st.ops, shape, OpMov, <<a>>), !.ret = next_node_id(st.ops)]

\* reduce along axis 0 of a one-axis shape
Array_reduce_op(st, a, reduce_op) ==
    IF st.ops.nodes[a].shape[1] = 1 THEN [st EXCEPT !.ret = a]
    ELSE [st EXCEPT !.ops = new_node(st.ops, <<1>>, MkOp("Reduce", reduce_op), <<a>>),
                    !.ret = next_node_id(st.ops)]

\* gather along axis 0 of a one-axis array: the indices are reshaped and broadcast
Array_gather(st, a, indices) ==
    LET shape == st.ops.nodes[indices].shape
        st1 == Array_reshape(st, indices, shape)
        st2 == Array_broadcast(st1, st1.ret, shape)
    IN [st2 EXCEPT !.ops = new_node(st2.ops, shape, MkOp("Gather", "0"), <<a, st2.ret>>),
                   !.ret = next_node_id(st2.ops)]

\* scatter_add along axis 0 with a u32 scalar as the index array
Array_scatter_add(st, a, values, index) ==
    LET st1 == Scope_literal_u32(st, index) IN
    [st1 EXCEPT !.ops = new_node(st1.ops, st1.ops.nodes[a].shape, MkOp("ScatterAdd", "0"),
                                 <<a, values, st1.ret>>),
                !.ret = next_node_id(st1.ops)]

\* variant: the Add takes the new contribution first and the previous source second
Array_accumulate_swapped(st, self, src) ==
    LET G   == st.ops
        ins == edges_in(G, self)
        G1  == IF ins # <<>>
               THEN new_node(remove_edge(G, Head(ins)), G.nodes[src].shape,
                             MkOp("Binary", "Add"), <<src, G.edges[Head(ins)].src>>)
               ELSE G
        src_id == IF ins # <<>> THEN next_node_id(remove_edge(G, Head(ins))) ELSE src
    IN [st EXCEPT !.ops = add_edge(G1, src_id, self,
                                   [arg |-> 0, view |-> identity_view(G.nodes[src].shape)]),
                  !.ret = self]
Array_accumulate(st, self, src) ==
    LET G   == st.ops
        ins == edges_in(G, self)
        G1  == IF ins # <<>>
               THEN new_node(remove_edge(G, Head(ins)), G.nodes[src].shape,
                             MkOp("Binary", "Add"), <<G.edges[Head(ins)].src, src>>)
               ELSE G
        src_id == IF ins # <<>> THEN next_node_id(remove_edge(G, Head(ins))) ELSE src
    IN [st EXCEPT !.ops = add_edge(G1, src_id, self,
                                   [arg |-> 0, view |-> identity_view(G.nodes[src].shape)]),
                  !.ret = self]

\* 1.0 / mini_batch_size as the value of a literal
mini_batch_scale(mini_batch_size) ==
    IF mini_batch_size = 1 THEN "1.0" ELSE "1/" \o ToString(mini_batch_size)

\* Array::set_loss_grad_root: [st, panic]; panic is a failed assertion
Array_set_loss_grad_root(st, self) ==
    LET grad_shape == st.ops.nodes[self].shape
        st1 == Scope_literal(st, mini_batch_scale(grad_shape[1]))
        st2 == Array_broadcast(st1, st1.ret, grad_shape)
    IN IF st2.ops.nodes[self].op # OpMov \/ edges_in(st2.ops, self) # <<>>
       THEN [st |-> st2, panic |-> TRUE]
       ELSE [st |-> [st2 EXCEPT !.ops = add_edge(st2.ops, st2.ret, self,
                                     [arg |-> 0, view |-> identity_view(grad_shape)])],
             panic |-> FALSE]

\* a DualArray is the pair of its value node and its gradient sink
DualArray_new(value, loss_grad) ==
    [value_node_id |-> value, loss_grad_node_id |-> loss_grad]

DualArray_set_loss(st, dual) ==
    LET r == Array_set_loss_grad_root(st, dual.loss_grad_node_id) IN
    [st |-> [r.st EXCEPT !.ret = dual.value_node_id], panic |-> r.panic]

\* the DualArray that Scope::literal returns
Scope_literal_dual(st, value) ==
    DualArray_new(next_node_id(st.ops),
                  next_node_id(new_node(st.ops, <<1>>, MkOp("Literal", value), <<>>)))

\* Scope::parameter: [st, dual, panic]; panic is the unwrap of a missing grad_node_id
Scope_parameter(st, p) ==
    LET st1 == Scope_input(st, p) IN
    [st |-> [st1 EXCEPT !.ret = st1.inputs[p].value_node_id],
     dual |-> DualArray_new(st1.inputs[p].value_node_id, st1.inputs[p].grad_node_id),
     panic |-> st1.inputs[p].grad_node_id = 0]

(***************************************************************************)
(* graph.rs: argument lookup                                               *)
(***************************************************************************)
MAX_OP_ARGS == 4

\* get_arg_edge_ids aborts on a duplicate slot, a slot past the array or a hole
arg_edges_ok(G, n) ==
    LET ins == edges_in(G, n) IN
    /\ \A i, j \in DOMAIN ins : i # j => G.edges[ins[i]].arg # G.edges[ins[j]].arg
    /\ \A i \in DOMAIN ins : G.edges[ins[i]].arg < MAX_OP_ARGS
    /\ \A i \in DOMAIN ins : \A k \in 0..G.edges[ins[i]].arg :
           \E j \in DOMAIN ins : G.edges[ins[j]].arg = k

get_arg_edge_ids(G, n) ==
    LET ins == edges_in(G, n) IN
    [k \in 1..Len(ins) |-> CHOOSE e \in Range(ins) : G.edges[e].arg = k - 1]

get_arg_sources(G, n) ==
    LET ids == get_arg_edge_ids(G, n) IN
    [k \in 1..Len(ids) |->
        [node_id |-> G.edges[ids[k]].src,
         is_gather |-> is_gather_arg(G.nodes[n].op, G.edges[ids[k]].arg),
         view |-> G.edges[ids[k]].view]]

(***************************************************************************)
(* Optimizer passes.  A pass result is [ops, panic]: panic records that    *)
(* an assertion, unwrap or index of the pass aborted.                      *)
(***************************************************************************)
Ok(G) == [ops |-> G, panic |-> FALSE]

Panic(G) == [ops |-> G, panic |-> TRUE]

\* variant: only the Output node with the lowest index is a live root
output_nodes_first_only(G) ==
    {n \in node_ids(G) : /\ G.nodes[n].op.kind = "Output"
                         /\ \A m \in node_ids(G) : G.nodes[m].op.kind = "Output" => n <= m}
output_nodes(G) == {n \in node_ids(G) : G.nodes[n].op.kind = "Output"}

sources_of(G, n) == {G.edges[e].src : e \in Range(edges_in(G, n))}

targets_of(G, n) == {G.edges[e].dst : e \in Range(edges_out(G, n))}

RECURSIVE dce_live(_, _, _)
dce_live(G, rev, live) ==
    IF rev = <<>> THEN live
    ELSE dce_live(G, Tail(rev),
                  IF Head(rev) \in live THEN live \cup sources_of(G, Head(rev)) ELSE live)

\* variant: the live sweep walks ops_sorted forwards instead of in reverse
eliminate_dead_code_forward(G, ops_sorted) ==
    retain_nodes(G, dce_live(G, ops_sorted, output_nodes(G)))
eliminate_dead_code(G, ops_sorted) ==
    retain_nodes(G, dce_live(G, Reverse(ops_sorted), output_nodes(G)))

\* variant: every rewired edge is given arg 0
RECURSIVE rewire_moves_arg0(_, _, _, _, _)
rewire_moves_arg0(G, outs, in_edge_id, in_node_id, can_rs) ==
    IF outs = <<>> THEN G
    ELSE rewire_moves_arg0(
             add_edge(G, in_node_id, G.edges[Head(outs)].dst,
                      [arg |-> 0,
                       view |-> through(G.edges[in_edge_id].view, G.edges[Head(outs)].view, can_rs)]),
             Tail(outs), in_edge_id, in_node_id, can_rs)

RECURSIVE rewire_moves(_, _, _, _, _)
rewire_moves(G, outs, in_edge_id, in_node_id, can_rs) ==
    IF outs = <<>> THEN G
    ELSE LET out_edge == G.edges[Head(outs)]
             new_edge == [arg |-> out_edge.arg,
                          view |-> through(G.edges[in_edge_id].view, out_edge.view, can_rs)]
         IN rewire_moves(add_edge(G, in_node_id, out_edge.dst, new_edge),
                         Tail(outs), in_edge_id, in_node_id, can_rs)

\* variant: the view of the incoming edge is not adjusted to the shape of the Mov
eliminate_move_unadjusted(G, node_id) ==
    LET ins == edges_in(G, node_id) IN
    IF Len(ins) # 1 THEN Ok(G)
    ELSE LET in_edge_id == ins[1]
             in_node_id == G.edges[in_edge_id].src
             view_match == try_from_reshape(G.edges[in_edge_id].view.output_shape,
                                            G.nodes[node_id].shape)
             G1 == G
             can_rs == can_reshape(G1.nodes[in_node_id].op)
             outs == edges_out(G1, node_id)
             can_eliminate ==
                 \A i \in DOMAIN outs :
                     /\ output_parameter_id(G1.nodes[G1.edges[outs[i]].dst].op) = <<>>
                     /\ can_view_through(G1.edges[in_edge_id].view,
                                         G1.edges[outs[i]].view, can_rs)
         IN IF ~can_eliminate THEN Ok(G1)
            ELSE IF outs # <<>> /\ G1.edges[in_edge_id].arg # 0 THEN Panic(G1)
            ELSE Ok(remove_node(rewire_moves(G1, outs, in_edge_id, in_node_id, can_rs),
                                node_id))
\* variant: no Mov is ever removed
eliminate_move_skipped(G, node_id) == Ok(G)

eliminate_move(G, node_id) ==
    LET ins == edges_in(G, node_id) IN
    IF Len(ins) # 1 THEN Ok(G)
    ELSE LET in_edge_id == ins[1]
             in_node_id == G.edges[in_edge_id].src
             view_match == try_from_reshape(G.edges[in_edge_id].view.output_shape,
                                            G.nodes[node_id].shape)
             G1 == IF view_match # <<>>
                   THEN [G EXCEPT !.edges[in_edge_id].view =
                             through(G.edges[in_edge_id].view, view_match[1], FALSE)]
                   ELSE G
             can_rs == can_reshape(G1.nodes[in_node_id].op)
             outs == edges_out(G1, node_id)
             can_eliminate ==
                 \A i \in DOMAIN outs :
                     /\ output_parameter_id(G1.nodes[G1.edges[outs[i]].dst].op) = <<>>
                     /\ can_view_through(G1.edges[in_edge_id].view,
                                         G1.edges[outs[i]].view, can_rs)
         IN IF ~can_eliminate THEN Ok(G1)
            ELSE IF outs # <<>> /\ G1.edges[in_edge_id].arg # 0 THEN Panic(G1)
            ELSE Ok(remove_node(rewire_moves(G1, outs, in_edge_id, in_node_id, can_rs),
                                node_id))

RECURSIVE eliminate_moves(_, _)
eliminate_moves(G, ops_sorted) ==
    IF ops_sorted = <<>> THEN Ok(G)
    ELSE LET node_id == Head(ops_sorted) IN
         IF ~contains_node(G, node_id) THEN Panic(G)
         ELSE IF G.nodes[node_id].op # OpMov THEN eliminate_moves(G, Tail(ops_sorted))
         ELSE LET r == eliminate_move(G, node_id) IN
              IF r.panic THEN r ELSE eliminate_moves(r.ops, Tail(ops_sorted))

skip_literal(op) ==
    IF op = MkOp("Binary", "Mul") THEN <<MkOp("Literal", "1.0")>>
    ELSE IF op = MkOp("Binary", "Add") THEN <<MkOp("Literal", "0.0")>>
    ELSE IF op = MkOp("Binary", "UMul") THEN <<MkOp("Literal", "1u")>>
    ELSE IF op = MkOp("Binary", "UAdd") THEN <<MkOp("Literal", "0u")>>
    ELSE <<>>

\* variant: the edge that is kept keeps its arg
RECURSIVE simplify_edges_arg_kept(_, _, _, _)
simplify_edges_arg_kept(G, node_id, ids, skip_edge_id) ==
    IF ids = <<>> THEN G
    ELSE simplify_edges_arg_kept(
             IF Head(ids) = skip_edge_id THEN remove_edge(G, Head(ids))
             ELSE [G EXCEPT !.nodes[node_id].op = OpMov],
             node_id, Tail(ids), skip_edge_id)

RECURSIVE simplify_edges(_, _, _, _)
simplify_edges(G, node_id, ids, skip_edge_id) ==
    IF ids = <<>> THEN G
    ELSE simplify_edges(
             IF Head(ids) = skip_edge_id THEN remove_edge(G, Head(ids))
             ELSE [G EXCEPT !.nodes[node_id].op = OpMov, !.edges[Head(ids)].arg = 0],
             node_id, Tail(ids), skip_edge_id)

\* one node of the sweep: [ops, panic, mov_added]
simplify_node(G, node_id) ==
    LET skip == skip_literal(G.nodes[node_id].op) IN
    IF skip = <<>> THEN [ops |-> G, panic |-> FALSE, mov_added |-> FALSE]
    ELSE IF ~arg_edges_ok(G, node_id) THEN [ops |-> G, panic |-> TRUE, mov_added |-> FALSE]
    ELSE LET ids  == get_arg_edge_ids(G, node_id)
             hits == SelectSeq(ids, LAMBDA e : G.nodes[G.edges[e].src].op = skip[1])
         IN IF hits = <<>> THEN [ops |-> G, panic |-> FALSE, mov_added |-> FALSE]
            ELSE [ops |-> simplify_edges(G, node_id, ids, Head(hits)),
                  panic |-> FALSE, mov_added |-> TRUE]

RECURSIVE simplify_sweep(_, _, _)
simplify_sweep(G, ops_sorted, mov_added) ==
    IF ops_sorted = <<>> THEN [ops |-> G, panic |-> FALSE, mov_added |-> mov_added]
    ELSE IF ~contains_node(G, Head(ops_sorted))
         THEN [ops |-> G, panic |-> TRUE, mov_added |-> mov_added]
    ELSE LET r == simplify_node(G, Head(ops_sorted)) IN
         IF r.panic THEN r
         ELSE simplify_sweep(r.ops, Tail(ops_sorted), mov_added \/ r.mov_added)

simplify_arithmetic(G, ops_sorted) ==
    LET r == simplify_sweep(G, ops_sorted, FALSE) IN
    IF r.panic THEN Panic(r.ops)
    ELSE IF r.mov_added THEN eliminate_moves(r.ops, ops_sorted)
    ELSE Ok(r.ops)

RECURSIVE copy_out_edges_reversed(_, _, _)
RECURSIVE copy_out_edges(_, _, _)
\* variant: the copied edge runs from the consumer back to the kept node
copy_out_edges_reversed(G, outs, other_id) ==
    IF outs = <<>> THEN G
    ELSE LET edge == G.edges[Head(outs)] IN
         copy_out_edges_reversed(
             add_edge(G, edge.dst, other_id, [arg |-> edge.arg, view |-> edge.view]),
             Tail(outs), other_id)
copy_out_edges(G, outs, other_id) ==
    IF outs = <<>> THEN G
    ELSE LET edge == G.edges[Head(outs)] IN
         copy_out_edges(add_edge(G, other_id, edge.dst, [arg |-> edge.arg, view |-> edge.view]),
                        Tail(outs), other_id)

RECURSIVE eliminate_common_subgraphs_from(_, _, _)
eliminate_common_subgraphs_from(G, ops_sorted, ids) ==
    IF ops_sorted = <<>> THEN Ok(G)
    ELSE LET node_id == Head(ops_sorted) IN
         IF ~contains_node(G, node_id) \/ ~arg_edges_ok(G, node_id) THEN Panic(G)
         ELSE IF ~can_merge(G.nodes[node_id].op)
              THEN eliminate_common_subgraphs_from(G, Tail(ops_sorted), ids)
         ELSE LET node  == G.nodes[node_id]
                  found == SelectSeq(ids, LAMBDA id :
                               /\ node.shape = G.nodes[id].shape
                               /\ node.op = G.nodes[id].op
                               /\ get_arg_sources(G, node_id) = get_arg_sources(G, id))
              IN IF found # <<>>
                 THEN eliminate_common_subgraphs_from(
                          remove_node(copy_out_edges(G, edges_out(G, node_id), Head(found)),
                                      node_id),
                          Tail(ops_sorted), ids)
                 ELSE eliminate_common_subgraphs_from(G, Tail(ops_sorted),
                                                      Append(ids, node_id))

\* variant: nothing is merged
eliminate_common_subgraphs_skipped(G, ops_sorted) == Ok(G)

eliminate_common_subgraphs(G, ops_sorted) ==
    eliminate_common_subgraphs_from(G, ops_sorted, <<>>)

\* variant: one copy takes all the consumer edges
copy_per_out_edge_shared(G, outs, orig_node) ==
    IF outs = <<>> THEN G
    ELSE copy_out_edges(add_node(G, orig_node), outs, next_node_id(G))

RECURSIVE copy_per_out_edge(_, _, _)
copy_per_out_edge(G, outs, orig_node) ==
    IF outs = <<>> THEN G
    ELSE LET edge == G.edges[Head(outs)]
             G1   == add_node(G, orig_node)
         IN copy_per_out_edge(
                add_edge(G1, next_node_id(G), edge.dst, [arg |-> edge.arg, view |-> edge.view]),
                Tail(outs), orig_node)

RECURSIVE make_built_ins_and_literals_unique(_, _)
make_built_ins_and_literals_unique(G, ops_sorted) ==
    IF ops_sorted = <<>> THEN Ok(G)
    ELSE LET node_id == Head(ops_sorted) IN
         IF ~contains_node(G, node_id) THEN Panic(G)
         ELSE IF G.nodes[node_id].op.kind \notin {"Literal", "BuiltIn"}
              THEN make_built_ins_and_literals_unique(G, Tail(ops_sorted))
         ELSE make_built_ins_and_literals_unique(
                  remove_node(copy_per_out_edge(G, edges_out(G, node_id), G.nodes[node_id]),
                              node_id),
                  Tail(ops_sorted))

(***************************************************************************)
(* Cluster builder                                                         *)
(***************************************************************************)
\* any_successor(roots, f) with f = "unassigned and has an edge into cluster cid"
RECURSIVE successor_reenters(_, _, _, _)
successor_reenters(G, sorted, markers, cid) ==
    IF sorted = <<>> THEN FALSE
    ELSE LET node_id == Head(sorted) IN
         IF sources_of(G, node_id) \cap markers # {}
         THEN IF /\ G.nodes[node_id].cluster_id = 0
                 /\ \E m \in targets_of(G, node_id) : G.nodes[m].cluster_id = cid
              THEN TRUE
              ELSE successor_reenters(G, Tail(sorted), markers \cup {node_id}, cid)
         ELSE successor_reenters(G, Tail(sorted), markers, cid)

any_successor(G, ops_sorted, roots, cid) ==
    successor_reenters(G, ops_sorted, roots, cid)

\* any_predecessor(roots, f) with f = "unassigned and has an edge from cluster cid"
RECURSIVE predecessor_reenters(_, _, _, _)
predecessor_reenters(G, rev, markers, cid) ==
    IF rev = <<>> THEN FALSE
    ELSE LET node_id == Head(rev) IN
         IF targets_of(G, node_id) \cap markers # {}
         THEN IF /\ G.nodes[node_id].cluster_id = 0
                 /\ \E m \in sources_of(G, node_id) : G.nodes[m].cluster_id = cid
              THEN TRUE
              ELSE predecessor_reenters(G, Tail(rev), markers \cup {node_id}, cid)
         ELSE predecessor_reenters(G, Tail(rev), markers, cid)

any_predecessor(G, ops_sorted, roots, cid) ==
    predecessor_reenters(G, Reverse(ops_sorted), roots, cid)

\* schedule.rs: Schedule::any_successor(roots, f), with f given by the set F
\* of the nodes on which it returns true
RECURSIVE Schedule_successor_scan(_, _, _, _)
Schedule_successor_scan(G, rev, markers, F) ==
    IF rev = <<>> THEN FALSE
    ELSE IF sources_of(G, Head(rev)) \cap markers # {}
         THEN IF Head(rev) \in F THEN TRUE
              ELSE Schedule_successor_scan(G, Tail(rev), markers \cup {Head(rev)}, F)
         ELSE Schedule_successor_scan(G, Tail(rev), markers, F)

Schedule_any_successor(G, ops_sorted, roots, F) ==
    Schedule_successor_scan(G, Reverse(ops_sorted), roots, F)

\* edges between other_node_id and the nodes already in cluster cid
\* (variant: only the edges coming from the cluster)
kernel_edges_incoming(G, other_node_id, cid) ==
    SelectSeq(edges_in(G, other_node_id),
              LAMBDA e : G.nodes[G.edges[e].src].cluster_id = cid)
kernel_edges(G, other_node_id, cid) ==
    SelectSeq(edges_in(G, other_node_id),
              LAMBDA e : G.nodes[G.edges[e].src].cluster_id = cid)
    \o SelectSeq(edges_out(G, other_node_id),
                 LAMBDA e : G.nodes[G.edges[e].dst].cluster_id = cid)

\* variant: the op of the candidate is not looked at
can_include_any_op(G, other_node_id, element_cnt) ==
    /\ G.nodes[other_node_id].cluster_id = 0
    /\ element_count(G.nodes[other_node_id].shape) = element_cnt
can_include(G, other_node_id, element_cnt) ==
    /\ G.nodes[other_node_id].cluster_id = 0
    /\ is_per_element(G.nodes[other_node_id].op)
    /\ element_count(G.nodes[other_node_id].shape) = element_cnt

\* variant: any unassigned per-element neighbour is absorbed, whatever its size and views
can_absorb_any_neighbour(G, ops_sorted, other_node_id, cid, element_cnt) ==
    /\ G.nodes[other_node_id].cluster_id = 0
    /\ is_per_element(G.nodes[other_node_id].op)
    /\ kernel_edges(G, other_node_id, cid) # <<>>
    /\ ~any_successor(G, ops_sorted, {other_node_id}, cid)
    /\ ~any_predecessor(G, ops_sorted, {other_node_id}, cid)
can_absorb(G, ops_sorted, other_node_id, cid, element_cnt) ==
    /\ can_include(G, other_node_id, element_cnt)
    /\ LET ke == kernel_edges(G, other_node_id, cid) IN
       /\ ke # <<>>
       /\ \A i \in DOMAIN ke :
              edge_is_per_element(G.edges[ke[i]], G.nodes[G.edges[ke[i]].dst].op)
    /\ ~any_successor(G, ops_sorted, {other_node_id}, cid)
    /\ ~any_predecessor(G, ops_sorted, {other_node_id}, cid)

\* the 'outer / 'inner loops: scan ops_sorted, restart after each absorbed node
RECURSIVE fuse(_, _, _, _, _)
fuse(G, ops_sorted, rest, cid, element_cnt) ==
    IF rest = <<>> THEN G
    ELSE IF can_absorb(G, ops_sorted, Head(rest), cid, element_cnt)
         THEN fuse([G EXCEPT !.nodes[Head(rest)].cluster_id = cid],
                   ops_sorted, ops_sorted, cid, element_cnt)
         ELSE fuse(G, ops_sorted, Tail(rest), cid, element_cnt)

PerElementCluster(element_cnt) ==
    [kernel |-> [kind |-> "PerElement", element_count |-> element_cnt,
                 inputs |-> <<>>, outputs |-> <<>>, ops |-> <<>>],
     inputs |-> <<>>, outputs |-> <<>>, panic |-> FALSE]

\* first loop of build_clusters: [ops, clusters]
RECURSIVE gather_per_element(_, _, _, _)
gather_per_element(G, clusters, ops_sorted, rest) ==
    IF rest = <<>> THEN [ops |-> G, clusters |-> clusters]
    ELSE LET first_node_id == Head(rest) IN
         IF G.nodes[first_node_id].cluster_id # 0 \/ ~is_per_element(G.nodes[first_node_id].op)
         THEN gather_per_element(G, clusters, ops_sorted, Tail(rest))
         ELSE LET element_cnt == element_count(G.nodes[first_node_id].shape)
                  cid == Len(clusters) + 1
                  G1  == [G EXCEPT !.nodes[first_node_id].cluster_id = cid]
              IN gather_per_element(fuse(G1, ops_sorted, ops_sorted, cid, element_cnt),
                                    Append(clusters, PerElementCluster(element_cnt)),
                                    ops_sorted, Tail(rest))

(***************************************************************************)
(* Kernel synthesis for the per-element clusters.  Indices into            *)
(* kernel.ops and kernel.inputs are 0-based as in the source.              *)
(***************************************************************************)
KernelOp(kind, op, args, input_index, view) ==
    [kind |-> kind, op |-> op, args |-> args, input_index |-> input_index, view |-> view]

NoView == identity_view(<<>>)

Lookup(map, key) == (CHOOSE i \in DOMAIN map : map[i].key = key)

HasKey(map, key) == \E i \in DOMAIN map : map[i].key = key

SynthStart(cluster) ==
    [kernel_inputs |-> <<>>, kernel_outputs |-> <<>>, kernel_ops |-> <<>>,
     inputs |-> <<>>, outputs |-> <<>>,
     arg_op_index |-> <<>>, member_op_index |-> <<>>, args |-> <<>>, panic |-> FALSE]

\* one argument of a member: member op index, or a memoized load / inlined source
synth_arg(G, K, cid, source) ==
    IF HasKey(K.member_op_index, source.node_id)
    THEN [K EXCEPT !.args = Append(K.args,
                       K.member_op_index[Lookup(K.member_op_index, source.node_id)].val)]
    ELSE IF HasKey(K.arg_op_index, source)
    THEN [K EXCEPT !.args = Append(K.args,
                       K.arg_op_index[Lookup(K.arg_op_index, source)].val)]
    ELSE IF source.is_gather
    THEN [K EXCEPT !.kernel_inputs = Append(K.kernel_inputs, source.view),
                   !.inputs = Append(K.inputs, source.node_id),
                   !.arg_op_index = Append(K.arg_op_index,
                                           [key |-> source, val |-> Len(K.kernel_inputs)]),
                   !.args = Append(K.args, Len(K.kernel_inputs))]
    ELSE IF G.nodes[source.node_id].cluster_id = cid THEN [K EXCEPT !.panic = TRUE]
    ELSE LET source_op == G.nodes[source.node_id].op
             memo == [K EXCEPT !.arg_op_index = Append(K.arg_op_index,
                                        [key |-> source, val |-> Len(K.kernel_ops)]),
                               !.args = Append(K.args, Len(K.kernel_ops))]
         IN IF source_op.kind = "Literal"
            THEN [memo EXCEPT !.kernel_ops = Append(K.kernel_ops,
                                  KernelOp("Literal", source_op, <<>>, 0, NoView))]
            ELSE IF source_op.kind = "BuiltIn"
            THEN [memo EXCEPT !.kernel_ops = Append(K.kernel_ops,
                                  KernelOp("BuiltIn", source_op, <<>>, 0, source.view))]
            ELSE [memo EXCEPT !.kernel_inputs = Append(K.kernel_inputs, source.view),
                              !.inputs = Append(K.inputs, source.node_id),
                              !.kernel_ops = Append(K.kernel_ops,
                                  KernelOp("Load", source_op, <<>>,
                                           Len(K.kernel_inputs), NoView))]

RECURSIVE synth_args(_, _, _, _)
synth_args(G, K, cid, sources) ==
    IF sources = <<>> \/ K.panic THEN K
    ELSE synth_args(G, synth_arg(G, K, cid, Head(sources)), cid, Tail(sources))

kernel_arity(op) ==
    IF op.kind = "Unary" THEN 1
    ELSE IF op.kind = "Binary" THEN 2
    ELSE IF op.kind = "CompareAndSelect" THEN 4
    ELSE IF op.kind = "Gather" THEN 2
    ELSE MAX_OP_ARGS + 1

\* variant: the Gather takes its table and its indices the other way round
member_op_gather_swapped(K, op) ==
    IF op.kind = "Gather"
    THEN KernelOp("Gather", op, <<K.args[1]>>, K.args[2], NoView)
    ELSE KernelOp(op.kind, op, SubSeq(K.args, 1, kernel_arity(op)), 0, NoView)

\* the kernel op of a member whose argument indices are K.args
member_op(K, op) ==
    IF op.kind = "Gather"
    THEN KernelOp("Gather", op, <<K.args[2]>>, K.args[1], NoView)
    ELSE KernelOp(op.kind, op, SubSeq(K.args, 1, kernel_arity(op)), 0, NoView)

\* emit the op of one member and store its result if it is used outside
emit_op(G, K, cid, node_id) ==
    IF K.panic \/ K.args = <<>> THEN K
    ELSE IF Len(K.args) < kernel_arity(G.nodes[node_id].op) THEN [K EXCEPT !.panic = TRUE]
    ELSE IF \E m \in targets_of(G, node_id) : G.nodes[m].cluster_id # cid
    THEN [K EXCEPT !.kernel_ops = Append(K.kernel_ops, member_op(K, G.nodes[node_id].op)),
                   !.member_op_index = Append(K.member_op_index,
                                              [key |-> node_id, val |-> Len(K.kernel_ops)]),
                   !.kernel_outputs = Append(K.kernel_outputs, Len(K.kernel_ops)),
                   !.outputs = Append(K.outputs, [node_id |-> node_id, initial_state |-> <<>>])]
    ELSE [K EXCEPT !.kernel_ops = Append(K.kernel_ops, member_op(K, G.nodes[node_id].op)),
                   !.member_op_index = Append(K.member_op_index,
                                              [key |-> node_id, val |-> Len(K.kernel_ops)])]

\* the arguments of one member first, then its op
synth_member(G, K0, cid, node_id) ==
    IF ~arg_edges_ok(G, node_id) THEN [K0 EXCEPT !.panic = TRUE]
    ELSE emit_op(G, synth_args(G, [K0 EXCEPT !.args = <<>>], cid, get_arg_sources(G, node_id)),
                 cid, node_id)

RECURSIVE synth_members(_, _, _, _)
synth_members(G, K, cid, members) ==
    IF members = <<>> \/ K.panic THEN K
    ELSE synth_members(G, synth_member(G, K, cid, Head(members)), cid, Tail(members))

\* the kernel and the inputs and outputs of cluster cid as synthesized in K
store_kernel(clusters, cid, K) ==
    [clusters EXCEPT ![cid].kernel.inputs = K.kernel_inputs,
                     ![cid].kernel.outputs = K.kernel_outputs,
                     ![cid].kernel.ops = K.kernel_ops,
                     ![cid].inputs = K.inputs,
                     ![cid].outputs = K.outputs,
                     ![cid].panic = K.panic]

cluster_members(G, ops_sorted, cid) ==
    SelectSeq(ops_sorted, LAMBDA n : G.nodes[n].cluster_id = cid)

\* second loop of build_clusters, over the clusters from cid on
RECURSIVE build_kernels(_, _, _, _)
build_kernels(G, ops_sorted, clusters, cid) ==
    IF cid > Len(clusters) THEN clusters
    ELSE build_kernels(G, ops_sorted,
             store_kernel(clusters, cid,
                          synth_members(G, SynthStart(clusters[cid]), cid,
                                        cluster_members(G, ops_sorted, cid))),
             cid + 1)

kernels_panic(clusters) == \E c \in DOMAIN clusters : clusters[c].panic

view_is_contiguous(v) == v.input_shape = v.output_shape /\ view_is_per_element(v)

single_node_arity(op) ==
    IF op.kind = "MatMul" THEN 2 ELSE IF op.kind = "ScatterAdd" THEN 3 ELSE 1

SingleNodeCluster(node, node_id, src) ==
    IF node.op.kind = "ScatterAdd"
    THEN [kernel |-> [kind |-> "ScatterAdd", element_count |-> element_count(node.shape),
                      inputs |-> <<src[2].view, src[3].view>>, outputs |-> <<>>,
                      ops |-> <<>>],
          inputs |-> <<src[2].node_id, src[3].node_id>>,
          outputs |-> << [node_id |-> node_id, initial_state |-> <<src[1].node_id>>] >>,
          panic |-> FALSE]
    ELSE [kernel |-> [kind |-> node.op.kind, element_count |-> element_count(node.shape),
                      inputs |-> [i \in DOMAIN src |-> src[i].view], outputs |-> <<>>,
                      ops |-> <<>>],
          inputs |-> [i \in DOMAIN src |-> src[i].node_id],
          outputs |-> << [node_id |-> node_id, initial_state |-> <<>>] >>,
          panic |-> FALSE]

\* variant: any accumulator is accepted
accumulator_unchecked(G, acc) == TRUE

\* the accumulator of a ScatterAdd is contiguous or a literal
accumulator_ok(G, acc) ==
    view_is_contiguous(acc.view) \/ G.nodes[acc.node_id].op.kind = "Literal"

\* variant: Reduce nodes are passed over as well
needs_no_cluster_or_reduce(op) == op.kind \in {"Input", "Output", "Literal", "BuiltIn", "Reduce"}
needs_no_cluster(op) == op.kind \in {"Input", "Output", "Literal", "BuiltIn"}

\* third loop of build_clusters: [ops, clusters, panic]
RECURSIVE add_single_node_clusters(_, _, _)
add_single_node_clusters(G, clusters, rest) ==
    IF rest = <<>> THEN [ops |-> G, clusters |-> clusters, panic |-> FALSE]
    ELSE LET node_id == Head(rest)
             node == G.nodes[node_id]
         IN IF node.cluster_id # 0 \/ needs_no_cluster(node.op)
            THEN add_single_node_clusters(G, clusters, Tail(rest))
            ELSE IF is_per_element(node.op) \/ ~arg_edges_ok(G, node_id)
                    \/ Len(edges_in(G, node_id)) # single_node_arity(node.op)
            THEN [ops |-> G, clusters |-> clusters, panic |-> TRUE]
            ELSE IF /\ node.op.kind = "ScatterAdd"
                    /\ ~accumulator_ok(G, get_arg_sources(G, node_id)[1])
            THEN [ops |-> G, clusters |-> clusters, panic |-> TRUE]
            ELSE add_single_node_clusters(
                     [G EXCEPT !.nodes[node_id].cluster_id = Len(clusters) + 1],
                     Append(clusters,
                            SingleNodeCluster(node, node_id, get_arg_sources(G, node_id))),
                     Tail(rest))

\* cluster_graph: one node per cluster, one edge per op edge that joins two clusters
RECURSIVE cluster_graph_edges(_, _, _)
cluster_graph_edges(G, CG, e) ==
    IF e > Len(G.edges) THEN CG
    ELSE IF G.edges[e] = VacantEdge THEN cluster_graph_edges(G, CG, e + 1)
    ELSE LET source_id == G.nodes[G.edges[e].src].cluster_id
             target_id == G.nodes[G.edges[e].dst].cluster_id
         IN IF source_id # 0 /\ target_id # 0 /\ source_id # target_id
            THEN cluster_graph_edges(G,
                     add_edge(CG, source_id, target_id, [arg |-> 0, view |-> NoView]), e + 1)
            ELSE cluster_graph_edges(G, CG, e + 1)

\* variant: the cluster nodes without any edge between them
cluster_graph_without_edges(G, clusters) ==
    [EmptyGraph EXCEPT !.nodes = [c \in 1..Len(clusters) |-> MkNode(<<c>>, MkOp("Cluster", "-"))]]
cluster_graph(G, clusters) ==
    cluster_graph_edges(G,
        [EmptyGraph EXCEPT !.nodes = [c \in 1..Len(clusters) |-> MkNode(<<c>>, MkOp("Cluster", "-"))]],
        1)

\* the ordering of the clusters and the final assertion
sort_clusters(r, sorted) ==
    [ops |-> r.ops, clusters |-> r.clusters, clusters_sorted |-> sorted,
     abort |-> IF Len(sorted) = Len(r.clusters) THEN "" ELSE "clusters_sorted"]

\* the ordering of the clusters unless a single-node cluster failed
single_node_clusters_sorted(r) ==
    IF r.panic
    THEN [ops |-> r.ops, clusters |-> r.clusters, clusters_sorted |-> <<>>,
          abort |-> "single_node"]
    ELSE sort_clusters(r, Topo(cluster_graph(r.ops, r.clusters)))

\* the third loop and the ordering, unless kernel synthesis failed
finish_clusters(G, ops_sorted, clusters) ==
    IF kernels_panic(clusters)
    THEN [ops |-> G, clusters |-> clusters, clusters_sorted |-> <<>>, abort |-> "kernel"]
    ELSE single_node_clusters_sorted(add_single_node_clusters(G, clusters, ops_sorted))

\* the second loop on the result of the first
synthesize_kernels(r, ops_sorted) ==
    finish_clusters(r.ops, ops_sorted, build_kernels(r.ops, ops_sorted, r.clusters, 1))

\* build_clusters: [ops, clusters, clusters_sorted, abort]; abort names the failed check
build_clusters(G, ops_sorted) ==
    synthesize_kernels(gather_per_element(G, <<>>, ops_sorted, ops_sorted), ops_sorted)

(***************************************************************************)
(* Builder programs.  A program is a sequence of builder calls; a call     *)
(* names its operands by the index of the call that returned them.         *)
(***************************************************************************)
Cmd(c, o, a, b) == [c |-> c, o |-> o, a |-> a, b |-> b]
\* the parameter a value of this shape is written to
parameter_of(shape) == CHOOSE p \in Parameters : parameter_shape(p) = shape


shape_of(st, vals, i) == st.ops.nodes[vals[i]].shape

\* the shapes a one-axis array of n elements is reshaped to
reshape_to(o, n) ==
    IF o = "column" THEN <<n, 1>> ELSE IF o = "row" THEN <<1, n>> ELSE <<n>>

\* the assertions of the builder call hold
cmd_ok(st, vals, cmd) ==
    CASE cmd.c = "lock"    -> cmd.b < shape_of(st, vals, cmd.a)[1]
      [] cmd.c = "write"   -> shape_of(st, vals, cmd.a) \in {parameter_shape(p) : p \in Parameters}
      [] cmd.c = "acc"     -> /\ st.ops.nodes[vals[cmd.a]].op = OpMov
                              /\ shape_of(st, vals, cmd.a) = shape_of(st, vals, cmd.b)
      [] cmd.c = "scatter" -> shape_of(st, vals, cmd.b) = <<1>>
      [] OTHER -> TRUE

exec(st, vals, cmd) ==
    CASE cmd.c = "param"   -> Scope_parameter_value(st, cmd.o)
      [] cmd.c = "lit"     -> Scope_literal(st, cmd.o)
      [] cmd.c = "litu"    -> Scope_literal_u32(st, cmd.o)
      [] cmd.c = "sink"    -> Scope_accumulator(st, <<cmd.a>>)
      [] cmd.c = "coord"   -> Scope_coord(st, cmd.a)
      [] cmd.c = "rand"    -> Scope_rand(st, <<cmd.a>>)
      [] cmd.c = "reshape" -> Array_reshape(st, vals[cmd.a],
                                            reshape_to(cmd.o, element_count(shape_of(st, vals, cmd.a))))
      [] cmd.c = "use"     -> [st EXCEPT !.ret = vals[cmd.a]]
      [] cmd.c = "un"      -> Array_unary_op(st, vals[cmd.a], cmd.o)
      [] cmd.c = "bin"     -> Array_binary_op(st, vals[cmd.a], vals[cmd.b], cmd.o)
      [] cmd.c = "lock"    -> Array_limit_axis(st, vals[cmd.a], cmd.b)
      [] cmd.c = "reduce"  -> Array_reduce_op(st, vals[cmd.a], cmd.o)
      [] cmd.c = "acc"     -> Array_accumulate(st, vals[cmd.a], vals[cmd.b])
      [] cmd.c = "scatter" -> Array_scatter_add(st, vals[cmd.a], vals[cmd.b], cmd.o)
      [] cmd.c = "gather"  -> Array_gather(st, vals[cmd.a], vals[cmd.b])
      [] cmd.c = "write"   -> Scope_write_parameter_value(st, parameter_of(shape_of(st, vals, cmd.a)),
                                                          vals[cmd.a])

\* [st, vals, ok]
RECURSIVE run(_, _, _)
run(st, vals, prog) ==
    IF prog = <<>> THEN [st |-> st, vals |-> vals, ok |-> TRUE]
    ELSE IF ~cmd_ok(st, vals, Head(prog)) THEN [st |-> st, vals |-> vals, ok |-> FALSE]
    ELSE LET st1 == exec(st, vals, Head(prog)) IN
         run(st1, Append(vals, st1.ret), Tail(prog))

Leaves ==
    {Cmd("param", "p1", 0, 0), Cmd("param", "p2", 0, 0),
     Cmd("lit", "0.0", 0, 0), Cmd("lit", "1.0", 0, 0)}

Sinks == {Cmd("sink", "-", 1, 0), Cmd("sink", "-", MaxDim, 0)}

Unaries(a) ==
    {Cmd("use", "-", a, 0), Cmd("un", "Neg", a, 0),
     Cmd("lock", "-", a, MaxDim - 1), Cmd("reduce", "Sum", a, 0)}

Pointwise(a) == {Cmd("use", "-", a, 0), Cmd("un", "Neg", a, 0)}

BinaryOps == {"Add", "Mul"}

\* two leaves, a pointwise op on each, a binary op, a unary op, a second binary op
Diamonds ==
    { <<l1, l2, u1, u2, Cmd("bin", o1, 3, 4), u3, Cmd("bin", o2, x, 6), Cmd("write", "-", t, 0)>> :
        l1 \in Leaves, l2 \in Leaves, u1 \in Pointwise(1), u2 \in Pointwise(2),
        o1 \in BinaryOps, u3 \in Unaries(5), o2 \in BinaryOps, x \in 3..5, t \in 6..7 }

\* a gradient sink that receives zero to three contributions and is then used
Accumulations ==
    { <<l1, l2, s, a1, a2, a3, u, Cmd("bin", o, 7, x), Cmd("write", "-", 8, 0)>> :
        l1 \in Leaves, l2 \in Leaves, s \in Sinks,
        a1 \in {Cmd("use", "-", 3, 0), Cmd("acc", "-", 3, 1)},
        a2 \in {Cmd("use", "-", 3, 0), Cmd("acc", "-", 3, 2)},
        a3 \in {Cmd("use", "-", 3, 0), Cmd("acc", "-", 3, 1)},
        u \in Pointwise(3), o \in BinaryOps, x \in {1, 3} }

\* scatter_add into a computed, limited or reduced accumulator, then a unary
\* and a binary op
Scatters ==
    { <<l1, l2, u1, Cmd("scatter", i, 3, 2), u2, Cmd("bin", o, 5, x), Cmd("write", "-", 6, 0)>> :
        l1 \in Leaves, l2 \in Leaves, u1 \in Unaries(1), i \in {"0u", "1u"},
        u2 \in Unaries(4), o \in BinaryOps, x \in 2..3 }

\* gather from a computed array with computed indices
Gathers ==
    { <<l1, u1, Cmd("litu", i, 0, 0), Cmd("litu", j, 0, 0), Cmd("bin", uo, 3, 4),
        Cmd("gather", "-", 2, 5), u2, Cmd("bin", o, 7, x), Cmd("write", "-", 8, 0)>> :
        l1 \in Leaves, u1 \in Pointwise(1), i \in {"0u", "1u"}, j \in {"0u", "1u"},
        uo \in {"UAdd", "UMul"}, u2 \in Pointwise(6), o \in BinaryOps, x \in {2, 6} }

\* two unary ops on one leaf, a binary op, and two parameter writes
Twins ==
    { <<l1, l2, u1, u2, Cmd("bin", o, 3, 4), Cmd("write", "-", t1, 0), Cmd("write", "-", t2, 0)>> :
        l1 \in Leaves, l2 \in Leaves, u1 \in Unaries(1), u2 \in Unaries(1),
        o \in BinaryOps, t1 \in 3..5, t2 \in 3..5 }

\* a leaf reshaped to two axes and back to one, then used with a second leaf
Reshapes ==
    { <<l1, l2, Cmd("reshape", r1, 1, 0), u2, Cmd("reshape", "flat", 4, 0), u3,
        Cmd("write", "-", 6, 0)>> :
        l1 \in Leaves \cup {Cmd("coord", "-", MaxDim, 0)}, l2 \in Leaves,
        r1 \in {"column", "row"}, u2 \in Pointwise(3),
        u3 \in Pointwise(5) \cup {Cmd("bin", o, 5, 2) : o \in BinaryOps} }

\* two built-ins of one shape, a pointwise op on each, a binary op and two
\* parameter writes
Randoms ==
    { <<b1, b2, u1, u2, Cmd("bin", o, 3, 4), Cmd("write", "-", t1, 0), Cmd("write", "-", t2, 0)>> :
        b1 \in {Cmd("rand", "-", MaxDim, 0), Cmd("coord", "-", MaxDim, 0)},
        b2 \in {Cmd("rand", "-", MaxDim, 0), Cmd("coord", "-", MaxDim, 0)},
        u1 \in Pointwise(1), u2 \in Pointwise(2), o \in BinaryOps, t1 \in 3..5, t2 \in {1, 5} }

Programs ==
    Diamonds \cup Accumulations \cup Scatters \cup Gathers \cup Twins \cup Reshapes \cup Randoms

(***************************************************************************)
(* heap.rs: the block allocator.  blocks is the slot map (a key is never   *)
(* handed out twice, a removed key stays vacant), free_lists holds the     *)
(* head of the circular list of free blocks of each size class (0 is None, *)
(* the class of index i is at position i + 1).  status is "ok" until a     *)
(* call aborts ("panic": a failed assert, unwrap or index) or its loop     *)
(* never ends ("hang").                                                    *)
(***************************************************************************)
BlockListNode(prev_id, next_id) == [prev_id |-> prev_id, next_id |-> next_id]

BlockListNode_new(id) == BlockListNode(id, id)

\* Option<BlockListNode>::None
NoNode == BlockListNode(0, 0)

Range_new(begin, end) == [begin |-> begin, end |-> end]

Range_size(range) == range.end - range.begin

Block_new(id, arena, range) ==
    [arena |-> arena, range |-> range, arena_node |-> BlockListNode_new(id), free_node |-> NoNode]

\* a slot whose block was removed
Vacant == [arena |-> 0, range |-> Range_new(0, 0), arena_node |-> NoNode, free_node |-> NoNode]

can_append(self, other) == self.arena = other.arena /\ self.range.end = other.range.begin

Heap_default == [blocks |-> <<>>, free_lists |-> <<>>, status |-> "ok"]

\* the key is in the slot map
contains_key(h, id) == id \in 1..Len(h.blocks) /\ h.blocks[id] # Vacant

block_ids(h) == {id \in 1..Len(h.blocks) : h.blocks[id] # Vacant}

is_free(h, id) == h.blocks[id].free_node # NoNode

heap_panic(h) == [h EXCEPT !.status = "panic"]

\* the least k with 2^k >= size
CeilLog2(size) == CHOOSE k \in 0..size : 2^k >= size /\ (k = 0 \/ 2^(k - 1) < size)

\* the greatest k with 2^k <= size
FloorLog2(size) == CHOOSE k \in 0..size : 2^k <= size /\ size < 2^(k + 1)

free_list_index_ceil(size) == IF size = 0 THEN 0 ELSE CeilLog2(size)

RECURSIVE free_list_index(_)
free_list_index(size) == IF size = 0 THEN 0 ELSE 1 + free_list_index(size \div 2)

RECURSIVE BitAnd(_, _)
BitAnd(a, b) ==
    IF a = 0 \/ b = 0 THEN 0
    ELSE 2 * BitAnd(a \div 2, b \div 2) + (IF a % 2 = 1 /\ b % 2 = 1 THEN 1 ELSE 0)

aligned_unmasked(begin, align) == begin + (align - 1)

\* (begin + align_mask) & !align_mask
aligned(begin, align) == (begin + (align - 1)) - BitAnd(begin + (align - 1), align - 1)

BlockListLink(kind, prev_next_id, next_prev_id) ==
    [kind |-> kind, prev_next_id |-> prev_next_id, next_prev_id |-> next_prev_id]

NoLink(kind) == BlockListLink(kind, <<0, "next_id">>, <<0, "prev_id">>)

free_link(h, prev_id, current_id, next_id) ==
    IF prev_id = current_id \/ current_id = next_id THEN NoLink("None")
    ELSE IF prev_id = next_id
    THEN IF ~contains_key(h, prev_id) \/ ~contains_key(h, current_id) THEN NoLink("panic")
         ELSE IF ~is_free(h, prev_id) THEN NoLink("panic")
         ELSE BlockListLink("Some", <<prev_id, "next_id">>, <<prev_id, "prev_id">>)
    ELSE IF \E id \in {prev_id, current_id, next_id} : ~contains_key(h, id) THEN NoLink("panic")
         ELSE IF ~is_free(h, prev_id) \/ ~is_free(h, next_id) THEN NoLink("panic")
         ELSE BlockListLink("Some", <<prev_id, "next_id">>, <<next_id, "next_id">>)

set_free_id(h, at, id) == [h EXCEPT !.blocks[at[1]].free_node[at[2]] = id]

set_free_node(h, id, node) == [h EXCEPT !.blocks[id].free_node = node]

set_free_list(h, index, head_id) ==
    IF index >= Len(h.free_lists) THEN heap_panic(h)
    ELSE [h EXCEPT !.free_lists[index + 1] = head_id]

register_link(h, link, prev_id, alloc_id, next_id) ==
    IF link.kind # "Some" THEN heap_panic(h)
    ELSE set_free_id(
             set_free_node(set_free_id(h, link.prev_next_id, alloc_id), alloc_id,
                           BlockListNode(prev_id, next_id)),
             link.next_prev_id, alloc_id)

register_next(h, alloc_id, next_id) ==
    IF next_id # 0
    THEN IF ~contains_key(h, next_id) THEN heap_panic(h)
         ELSE IF ~is_free(h, next_id) THEN heap_panic(h)
         ELSE register_link(h, free_link(h, h.blocks[next_id].free_node.prev_id, alloc_id, next_id),
                            h.blocks[next_id].free_node.prev_id, alloc_id, next_id)
    ELSE set_free_node(h, alloc_id, BlockListNode_new(alloc_id))

register_head(h, index, alloc_id) ==
    IF h.status # "ok" THEN h ELSE set_free_list(h, index, alloc_id)

register_free_block(h, alloc_id) ==
    IF h.status # "ok" THEN h
    ELSE IF ~contains_key(h, alloc_id) THEN heap_panic(h)
    ELSE IF is_free(h, alloc_id) THEN heap_panic(h)
    ELSE IF free_list_index(Range_size(h.blocks[alloc_id].range)) >= Len(h.free_lists)
    THEN heap_panic(h)
    ELSE register_head(
             register_next(h, alloc_id,
                 h.free_lists[free_list_index(Range_size(h.blocks[alloc_id].range)) + 1]),
             free_list_index(Range_size(h.blocks[alloc_id].range)), alloc_id)

unregister_link(h, link, free_id, node) ==
    IF link.kind = "panic" THEN [heap |-> heap_panic(h), head_id |-> 0]
    ELSE IF link.kind = "Some"
    THEN [heap |-> set_free_id(set_free_id(h, link.prev_next_id, node.next_id),
                               link.next_prev_id, node.prev_id),
          head_id |-> node.next_id]
    ELSE IF free_id # node.prev_id \/ free_id # node.next_id
    THEN [heap |-> heap_panic(h), head_id |-> 0]
    ELSE [heap |-> h, head_id |-> 0]

unregister_head(r, index, free_id) ==
    IF r.heap.status # "ok" THEN r.heap
    ELSE set_free_list(set_free_node(r.heap, free_id, NoNode), index, r.head_id)

unregister_free_block_kept(h, free_id) == h

unregister_free_block(h, free_id) ==
    IF h.status # "ok" THEN h
    ELSE IF ~contains_key(h, free_id) THEN heap_panic(h)
    ELSE IF ~is_free(h, free_id) THEN heap_panic(h)
    ELSE unregister_head(
             unregister_link(h,
                 free_link(h, h.blocks[free_id].free_node.prev_id, free_id,
                           h.blocks[free_id].free_node.next_id),
                 free_id, h.blocks[free_id].free_node),
             free_list_index(Range_size(h.blocks[free_id].range)), free_id)

arena_link(h, prev_id, current_id, next_id) ==
    IF prev_id = next_id
    THEN IF prev_id = current_id \/ ~contains_key(h, prev_id) \/ ~contains_key(h, current_id)
         THEN NoLink("panic")
         ELSE BlockListLink("Some", <<prev_id, "next_id">>, <<prev_id, "prev_id">>)
    ELSE IF \/ prev_id = current_id \/ current_id = next_id
            \/ \E id \in {prev_id, current_id, next_id} : ~contains_key(h, id)
         THEN NoLink("panic")
         ELSE BlockListLink("Some", <<prev_id, "next_id">>, <<next_id, "prev_id">>)

set_arena_id(h, at, id) == [h EXCEPT !.blocks[at[1]].arena_node[at[2]] = id]

\* blocks.insert_with_key(|key| Block::new(key, arena, range)): the new key
insert_key(h) == Len(h.blocks) + 1

insert_block(h, arena, range) ==
    [h EXCEPT !.blocks = Append(h.blocks, Block_new(insert_key(h), arena, range))]

truncate_link(h, link, prev_id, new_id, next_id) ==
    IF link.kind # "Some" THEN [heap |-> heap_panic(h), id |-> 0]
    ELSE [heap |-> set_arena_id(
                       [set_arena_id(h, link.prev_next_id, new_id)
                            EXCEPT !.blocks[new_id].arena_node = BlockListNode(prev_id, next_id)],
                       link.next_prev_id, new_id),
          id |-> new_id]

truncate_insert(h, orig_id, new_id, next_id) ==
    truncate_link(h, arena_link(h, orig_id, new_id, next_id), orig_id, new_id, next_id)

truncate_block(h, orig_id, new_size) ==
    IF h.status # "ok" THEN [heap |-> h, id |-> 0]
    ELSE IF ~contains_key(h, orig_id) THEN [heap |-> heap_panic(h), id |-> 0]
    ELSE IF new_size <= 0 \/ h.blocks[orig_id].range.begin + new_size >= h.blocks[orig_id].range.end
    THEN [heap |-> heap_panic(h), id |-> 0]
    ELSE truncate_insert(
             insert_block([h EXCEPT !.blocks[orig_id].range.end = h.blocks[orig_id].range.begin + new_size],
                          h.blocks[orig_id].arena,
                          Range_new(h.blocks[orig_id].range.begin + new_size, h.blocks[orig_id].range.end)),
             orig_id, insert_key(h), h.blocks[orig_id].arena_node.next_id)

append_link(h, link, orig_id, append_id, next_id) ==
    IF link.kind # "Some" THEN heap_panic(h)
    ELSE [set_arena_id(set_arena_id(h, link.prev_next_id, next_id), link.next_prev_id, orig_id)
              EXCEPT !.blocks[append_id] = Vacant]

append_range(h, orig_id, append_id, next_id) ==
    append_link(h, arena_link(h, orig_id, append_id, next_id), orig_id, append_id, next_id)

append_block(h, orig_id, append_id) ==
    IF h.status # "ok" THEN h
    ELSE IF orig_id = append_id \/ ~contains_key(h, orig_id) \/ ~contains_key(h, append_id)
    THEN heap_panic(h)
    ELSE IF h.blocks[orig_id].range.end # h.blocks[append_id].range.begin THEN heap_panic(h)
    ELSE append_range([h EXCEPT !.blocks[orig_id].range.end = h.blocks[append_id].range.end],
                      orig_id, append_id, h.blocks[append_id].arena_node.next_id)

extend_free_lists(h, size) ==
    [h EXCEPT !.free_lists =
        IF free_list_index(size) >= Len(h.free_lists)
        THEN h.free_lists \o [i \in 1..(free_list_index(size) + 1 - Len(h.free_lists)) |-> 0]
        ELSE h.free_lists]

extend_with(h, arena, size) ==
    register_free_block(insert_block(extend_free_lists(h, size), arena, Range_new(0, size)),
                        insert_key(h))

AllocResult(h, block_id, offset) == [heap |-> h, block_id |-> block_id, offset |-> offset]

alloc_back(t, size, aligned_begin, aligned_end, block_end) ==
    IF t.heap.status # "ok" THEN AllocResult(t.heap, 0, 0)
    ELSE IF aligned_end # block_end
    THEN AllocResult(
             register_free_block(truncate_block(t.heap, t.id, size).heap,
                                 truncate_block(t.heap, t.id, size).id),
             t.id, aligned_begin)
    ELSE AllocResult(t.heap, t.id, aligned_begin)

alloc_after_back(r) == IF r.heap.status # "ok" THEN AllocResult(r.heap, 0, 0) ELSE r

alloc_front(h, block_id, block_range, size, aligned_begin) ==
    IF aligned_begin # block_range.begin
    THEN [heap |-> register_free_block(
                       truncate_block(h, block_id, aligned_begin - block_range.begin).heap, block_id),
          id |-> truncate_block(h, block_id, aligned_begin - block_range.begin).id]
    ELSE [heap |-> h, id |-> block_id]

alloc_fit(h, block_id, block_range, size, aligned_begin) ==
    alloc_after_back(
        alloc_back(alloc_front(unregister_free_block(h, block_id), block_id, block_range,
                               size, aligned_begin),
                   size, aligned_begin, aligned_begin + size, block_range.end))

RECURSIVE alloc_loop(_, _, _, _, _, _, _)
alloc_loop(h, size, align, list_index, first_block_id, block_id, visited) ==
    IF list_index >= Len(h.free_lists) THEN AllocResult(h, 0, 0)
    ELSE IF first_block_id = 0
    THEN IF h.free_lists[list_index + 1] = 0
         THEN alloc_loop(h, size, align, list_index + 1, 0, 0, 0)
         ELSE alloc_loop(h, size, align, list_index, h.free_lists[list_index + 1],
                         h.free_lists[list_index + 1], 0)
    ELSE IF ~contains_key(h, block_id) THEN AllocResult(heap_panic(h), 0, 0)
    ELSE IF aligned(h.blocks[block_id].range.begin, align) + size <= h.blocks[block_id].range.end
    THEN alloc_fit(h, block_id, h.blocks[block_id].range, size,
                   aligned(h.blocks[block_id].range.begin, align))
    ELSE IF ~is_free(h, block_id) THEN AllocResult(heap_panic(h), 0, 0)
    ELSE IF h.blocks[block_id].free_node.next_id = first_block_id
    THEN alloc_loop(h, size, align, list_index + 1, 0, 0, 0)
    ELSE IF visited >= Len(h.blocks)
    THEN AllocResult([h EXCEPT !.status = "hang"], 0, 0)
    ELSE alloc_loop(h, size, align, list_index, first_block_id,
                    h.blocks[block_id].free_node.next_id, visited + 1)

alloc(h, size, align) ==
    IF free_list_index(size) > Len(h.free_lists) THEN AllocResult(heap_panic(h), 0, 0)
    ELSE alloc_loop(h, size, align, free_list_index(size), 0, 0, 0)

free_prev(h, block_id, prev_id) ==
    IF ~contains_key(h, prev_id) THEN heap_panic(h)
    ELSE IF is_free(h, prev_id) /\ can_append(h.blocks[prev_id], h.blocks[block_id])
    THEN register_free_block(
             append_block(unregister_free_block(h, prev_id), prev_id, block_id), prev_id)
    ELSE register_free_block(h, block_id)

free_block(h, block_id) ==
    IF h.status # "ok" THEN h
    ELSE IF ~contains_key(h, block_id) THEN heap_panic(h)
    ELSE free_prev(h, block_id, h.blocks[block_id].arena_node.prev_id)

free_next_unmerged(h, block_id, next_id) ==
    IF ~contains_key(h, next_id) THEN heap_panic(h) ELSE h

free_next(h, block_id, next_id) ==
    IF ~contains_key(h, next_id) THEN heap_panic(h)
    ELSE IF is_free(h, next_id) /\ can_append(h.blocks[block_id], h.blocks[next_id])
    THEN append_block(unregister_free_block(h, next_id), block_id, next_id)
    ELSE h

free(h, block_id) ==
    IF ~contains_key(h, block_id) THEN heap_panic(h)
    ELSE IF is_free(h, block_id) THEN heap_panic(h)
    ELSE free_block(free_next(h, block_id, h.blocks[block_id].arena_node.next_id), block_id)

(***************************************************************************)
(* Graph::new as a state machine: pc names the next call.                  *)
(***************************************************************************)
VARIABLES ops, ops_sorted, clusters, clusters_sorted, pc, ops_in

\* the builder: the scope state, the last call made on it and the calls so far
VARIABLES scope, call, hist

\* the allocator: the heap, the last call made on it and the calls so far
VARIABLES heap, heap_call, heap_hist

vars ==
    <<ops, ops_sorted, clusters, clusters_sorted, pc, ops_in, scope, call, hist,
      heap, heap_call, heap_hist>>

heap_vars == <<heap, heap_call, heap_hist>>

graph_vars == <<ops, ops_sorted, clusters, clusters_sorted, pc, ops_in>>

builder_vars == <<scope, call, hist>>

NoCall == [name |-> "none", p |-> "-", args |-> <<>>, ret |-> 0, aborted |-> FALSE]

NoHist ==
    [calls |-> 0, arrays |-> {}, duals |-> {}, sinks |-> {},
     written |-> [p \in Parameters |-> 0], accumulated |-> <<>>, seeded |-> {}]

\* no builder call has been made
BuilderIdle == scope = Scope_new /\ call = NoCall /\ hist = NoHist

NoHeapCall ==
    [n |-> 0, name |-> "none", size |-> 0, align |-> 0, block_id |-> 0, offset |-> 0,
     blocks_before |-> 0]

NoHeapHist == [arenas |-> <<>>, live |-> {}, returned |-> {}]

\* no allocator call has been made
HeapIdle == heap = Heap_default /\ heap_call = NoHeapCall /\ heap_hist = NoHeapHist

Init ==
    /\ \E prog \in Programs :
           /\ run(Scope_new, <<>>, prog).ok
           /\ ops = run(Scope_new, <<>>, prog).st.ops
    /\ ops_in = ops
    /\ ops_sorted = <<>>
    /\ clusters = <<>>
    /\ clusters_sorted = <<>>
    /\ pc = "order_dce"
    /\ BuilderIdle
    /\ HeapIdle

after_order(p) ==
    CASE p = "order_dce" -> "dce"
      [] p = "order_moves" -> "moves"
      [] p = "order_simplify" -> "simplify"
      [] p = "order_cse" -> "cse"
      [] p = "order_unique" -> "unique"
      [] p = "order_clusters" -> "clusters"

OrderSteps ==
    {"order_dce", "order_moves", "order_simplify", "order_cse", "order_unique",
     "order_clusters"}

rebuild_ordering ==
    /\ pc \in OrderSteps
    /\ ops_sorted' = Topo(ops)
    /\ pc' = IF node_count(ops) = Len(Topo(ops)) THEN after_order(pc) ELSE "panic_ordering"
    /\ UNCHANGED <<ops, clusters, clusters_sorted, ops_in>>
    /\ UNCHANGED builder_vars
    /\ UNCHANGED heap_vars

\* variant: when the pass has run, control goes back to the ordering before it
Pass_again(at, r, next) ==
    /\ pc = at
    /\ ops' = r.ops
    /\ pc' = IF r.panic THEN "panic_pass" ELSE "order_" \o at
    /\ UNCHANGED <<ops_sorted, clusters, clusters_sorted, ops_in>>
    /\ UNCHANGED builder_vars
    /\ UNCHANGED heap_vars

Pass(at, r, next) ==
    /\ pc = at
    /\ ops' = r.ops
    /\ pc' = IF r.panic THEN "panic_pass" ELSE next
    /\ UNCHANGED <<ops_sorted, clusters, clusters_sorted, ops_in>>
    /\ UNCHANGED builder_vars
    /\ UNCHANGED heap_vars

EliminateDeadCode == Pass("dce", Ok(eliminate_dead_code(ops, ops_sorted)), "order_moves")

EliminateMoves == Pass("moves", eliminate_moves(ops, ops_sorted), "order_simplify")

SimplifyArithmetic == Pass("simplify", simplify_arithmetic(ops, ops_sorted), "order_cse")

EliminateCommonSubgraphs ==
    Pass("cse", eliminate_common_subgraphs(ops, ops_sorted), "order_unique")

MakeBuiltInsAndLiteralsUnique ==
    Pass("unique", make_built_ins_and_literals_unique(ops, ops_sorted), "order_clusters")

BuildClusters ==
    /\ pc = "clusters"
    /\ LET r == build_clusters(ops, ops_sorted) IN
       /\ ops' = r.ops
       /\ clusters' = r.clusters
       /\ clusters_sorted' = r.clusters_sorted
       /\ pc' = IF r.abort = "" THEN "done" ELSE "panic_" \o r.abort
    /\ UNCHANGED <<ops_sorted, ops_in>>
    /\ UNCHANGED builder_vars
    /\ UNCHANGED heap_vars

Next ==
    \/ rebuild_ordering
    \/ EliminateDeadCode
    \/ EliminateMoves
    \/ SimplifyArithmetic
    \/ EliminateCommonSubgraphs
    \/ MakeBuiltInsAndLiteralsUnique
    \/ BuildClusters

Spec == Init /\ [][Next]_vars

(***************************************************************************)
(* Graph relations used by the properties                                  *)
(***************************************************************************)
OpEdgePairs(G) == {<<G.edges[e].src, G.edges[e].dst>> : e \in edge_ids(G)}

Succs(E, S) == {x[2] : x \in {y \in E : y[1] \in S}}

Preds(E, S) == {x[1] : x \in {y \in E : y[2] \in S}}

RECURSIVE Descendants(_, _)
Descendants(E, S) ==
    IF Succs(E, S) \subseteq S THEN S ELSE Descendants(E, S \cup Succs(E, S))

RECURSIVE Ancestors(_, _)
Ancestors(E, S) ==
    IF Preds(E, S) \subseteq S THEN S ELSE Ancestors(E, S \cup Preds(E, S))

HasCycle(E) == \E x \in E : x[1] \in Descendants(E, {x[2]})

ClusterOf(G, n) == G.nodes[n].cluster_id

CrossClusterEdges(G) ==
    {e \in edge_ids(G) :
        /\ ClusterOf(G, G.edges[e].src) # 0
        /\ ClusterOf(G, G.edges[e].dst) # 0
        /\ ClusterOf(G, G.edges[e].src) # ClusterOf(G, G.edges[e].dst)}

ClusterEdgePairs(G) ==
    {<<ClusterOf(G, G.edges[e].src), ClusterOf(G, G.edges[e].dst)>> : e \in CrossClusterEdges(G)}

Members(G, c) == {n \in node_ids(G) : ClusterOf(G, n) = c}

KindsOf(G, kinds) == {n \in node_ids(G) : G.nodes[n].op.kind \in kinds}

PerElementKinds == {"Unary", "Binary", "CompareAndSelect", "Gather"}

SingleNodeKinds == {"Reduce", "MatMul", "Unpad", "WindowsToImage", "ScatterAdd"}

UnclusteredKinds == {"Input", "Output", "Literal", "BuiltIn"}

Position(seq, x) == CHOOSE i \in DOMAIN seq : seq[i] = x

(***************************************************************************)
(* C1: the cluster graph induced by the op edges that join two different   *)
(* clusters is acyclic, so build_clusters ends with as many entries in     *)
(* clusters_sorted as there are clusters and its final assertion holds.    *)
(***************************************************************************)
C1_ClusterGraphAcyclic ==
    pc \in {"done", "panic_clusters_sorted"} =>
        /\ ~HasCycle(ClusterEdgePairs(ops))
        /\ Len(clusters_sorted) = Len(clusters)
        /\ pc = "done"

(***************************************************************************)
(* C2: after build_clusters every node that is not Input, Output, Literal  *)
(* or BuiltIn is in exactly one existing cluster: per-element ops in a     *)
(* per-element cluster, and each Reduce, MatMul, Unpad, WindowsToImage and *)
(* ScatterAdd node alone in a cluster of its own kind.                     *)
(***************************************************************************)
C2_ClusterPartition ==
    pc = "done" =>
        /\ \A n \in node_ids(ops) \ KindsOf(ops, UnclusteredKinds) :
               ClusterOf(ops, n) \in 1..Len(clusters)
        /\ \A n \in KindsOf(ops, PerElementKinds) :
               clusters[ClusterOf(ops, n)].kernel.kind = "PerElement"
        /\ \A n \in KindsOf(ops, SingleNodeKinds) :
               /\ Members(ops, ClusterOf(ops, n)) = {n}
               /\ clusters[ClusterOf(ops, n)].kernel.kind = ops.nodes[n].op.kind
               /\ clusters[ClusterOf(ops, n)].outputs[1].node_id = n

C2_Witness ==
    /\ pc = "done"
    /\ KindsOf(ops, {"Reduce"}) # {}
    /\ \E n \in KindsOf(ops, PerElementKinds) : Cardinality(Members(ops, ClusterOf(ops, n))) >= 2

(***************************************************************************)
(* C3: clusters_sorted lists every cluster exactly once and, for every op  *)
(* edge between two different clusters, the source's cluster comes before  *)
(* the target's cluster; this covers the edge from the accumulator source  *)
(* of a ScatterAdd to the ScatterAdd cluster.                              *)
(***************************************************************************)
C3_ClustersSortedTopological ==
    pc = "done" =>
        /\ Len(clusters_sorted) = Len(clusters)
        /\ Range(clusters_sorted) = 1..Len(clusters)
        /\ \A e \in CrossClusterEdges(ops) :
               Position(clusters_sorted, ClusterOf(ops, ops.edges[e].src))
                   < Position(clusters_sorted, ClusterOf(ops, ops.edges[e].dst))

C3_Witness ==
    /\ pc = "done"
    /\ Len(clusters) >= 3
    /\ \E e \in CrossClusterEdges(ops) :
           /\ ops.nodes[ops.edges[e].dst].op.kind = "ScatterAdd"
           /\ ops.edges[e].arg = 0

(***************************************************************************)
(* C4: the op graph is acyclic after every optimizer pass, and the         *)
(* assertion of rebuild_ordering (node_count = ops_sorted.len()) holds at  *)
(* every call.                                                             *)
(***************************************************************************)
C4_OpGraphAcyclic ==
    /\ ~HasCycle(OpEdgePairs(ops))
    /\ pc # "panic_ordering"
    /\ pc \in {"dce", "moves", "simplify", "cse", "unique", "clusters"} =>
           /\ Len(ops_sorted) = node_count(ops)
           /\ Range(ops_sorted) = node_ids(ops)

C4_Witness ==
    /\ pc = "clusters"
    /\ OpEdgePairs(ops) \ OpEdgePairs(ops_in) # {}
    /\ node_ids(ops_in) \ node_ids(ops) # {}

(***************************************************************************)
(* C5: no optimizer pass adds, removes or merges an Output node: the       *)
(* Output nodes and the parameter each one writes are those of the graph   *)
(* handed to Graph::new, and each Output has exactly one incoming edge,    *)
(* at arg 0.                                                               *)
(***************************************************************************)
OutputOps(G) == {<<n, G.nodes[n].op>> : n \in KindsOf(G, {"Output"})}

C5_OutputsPreserved ==
    /\ OutputOps(ops) = OutputOps(ops_in)
    /\ \A n \in KindsOf(ops, {"Output"}) :
           /\ Len(edges_in(ops, n)) = 1
           /\ ops.edges[edges_in(ops, n)[1]].arg = 0

C5_Witness ==
    /\ pc = "done"
    /\ KindsOf(ops, {"Output"}) # {}
    /\ node_ids(ops_in) \ node_ids(ops) # {}
    /\ \E n \in KindsOf(ops, {"Output"}) :
           ops.edges[edges_in(ops, n)[1]].src # ops_in.edges[edges_in(ops_in, n)[1]].src

(***************************************************************************)
(* C6: after eliminate_dead_code the node set is exactly the Output nodes  *)
(* and the nodes from which an Output is reachable; the other nodes and    *)
(* their edges are gone and every kept node keeps all its incoming edges.  *)
(***************************************************************************)
LiveNodes(G) == Ancestors(OpEdgePairs(G), KindsOf(G, {"Output"}))

InEdges(G, n) == {<<e, G.edges[e]>> : e \in {x \in edge_ids(G) : G.edges[x].dst = n}}

C6_DeadCodeEliminated ==
    pc = "order_moves" =>
        /\ node_ids(ops) = LiveNodes(ops_in)
        /\ \A n \in node_ids(ops) :
               /\ ops.nodes[n] = ops_in.nodes[n]
               /\ InEdges(ops, n) = InEdges(ops_in, n)
        /\ \A e \in edge_ids(ops) :
               {ops.edges[e].src, ops.edges[e].dst} \subseteq node_ids(ops)

C6_Witness ==
    /\ pc = "order_moves"
    /\ \E n \in node_ids(ops_in) \ node_ids(ops) : InEdges(ops_in, n) # {}
    /\ \E n \in node_ids(ops) : Cardinality(InEdges(ops, n)) = 2

(***************************************************************************)
(* C7: in every per-element cluster all member nodes have the same element *)
(* count, which is the element_count of the cluster's kernel.              *)
(***************************************************************************)
ElementCount(G, n) == element_count(G.nodes[n].shape)

C7_ClusterElementCount ==
    pc = "done" =>
        \A n \in node_ids(ops) :
            (/\ ClusterOf(ops, n) # 0
             /\ clusters[ClusterOf(ops, n)].kernel.kind = "PerElement")
                => ElementCount(ops, n) = clusters[ClusterOf(ops, n)].kernel.element_count

C7_Witness ==
    /\ pc = "done"
    /\ \E n \in node_ids(ops), m \in node_ids(ops) :
           /\ n # m
           /\ ClusterOf(ops, n) # 0
           /\ ClusterOf(ops, n) = ClusterOf(ops, m)
           /\ clusters[ClusterOf(ops, n)].kernel.kind = "PerElement"
    /\ \E e \in CrossClusterEdges(ops) :
           /\ ops.nodes[ops.edges[e].src].op.kind \in PerElementKinds
           /\ ops.nodes[ops.edges[e].dst].op.kind \in PerElementKinds
           /\ ElementCount(ops, ops.edges[e].src) # ElementCount(ops, ops.edges[e].dst)

(***************************************************************************)
(* C8 as stated: after build_clusters every op edge between two different  *)
(* clusters has an endpoint that is not a per-element op or is a           *)
(* gather-argument edge.                                                   *)
(***************************************************************************)
IsGatherArgEdge(G, e) == G.nodes[G.edges[e].dst].op.kind = "Gather" /\ G.edges[e].arg = 0

PerElementCrossEdges(G) ==
    {e \in CrossClusterEdges(G) :
        /\ G.nodes[G.edges[e].src].op.kind \in PerElementKinds
        /\ G.nodes[G.edges[e].dst].op.kind \in PerElementKinds
        /\ ~IsGatherArgEdge(G, e)}

C8_NoPerElementCrossEdge == pc = "done" => PerElementCrossEdges(ops) = {}

(***************************************************************************)
(* C8 as it holds: an op edge between two per-element nodes in different   *)
(* clusters that is not a gather-argument edge joins nodes of different    *)
(* element counts, or some edge between the two clusters is a gather       *)
(* argument or has a view that is not per-element, or a node outside both  *)
(* clusters lies on a path from one of the two clusters to the other.      *)
(***************************************************************************)
EdgesJoining(G, A, B) ==
    {e \in edge_ids(G) : \/ (G.edges[e].src \in A /\ G.edges[e].dst \in B)
                         \/ (G.edges[e].src \in B /\ G.edges[e].dst \in A)}

NotFusable(G, A, B) ==
    \E x \in EdgesJoining(G, A, B) :
        ~view_is_per_element(G.edges[x].view) \/ IsGatherArgEdge(G, x)

NodeBetween(G, A, B) ==
    \E w \in node_ids(G) \ (A \cup B) :
        \/ (w \in Descendants(OpEdgePairs(G), A) /\ w \in Ancestors(OpEdgePairs(G), B))
        \/ (w \in Descendants(OpEdgePairs(G), B) /\ w \in Ancestors(OpEdgePairs(G), A))

C8_CrossEdgesJustified ==
    pc = "done" =>
        \A e \in PerElementCrossEdges(ops) :
            LET u == ops.edges[e].src
                v == ops.edges[e].dst
                A == Members(ops, ClusterOf(ops, u))
                B == Members(ops, ClusterOf(ops, v))
            IN \/ ElementCount(ops, u) # ElementCount(ops, v)
               \/ NotFusable(ops, A, B)
               \/ NodeBetween(ops, A, B)

C8_Witness ==
    /\ pc = "done"
    /\ \E e \in PerElementCrossEdges(ops) :
           /\ ElementCount(ops, ops.edges[e].src) = ElementCount(ops, ops.edges[e].dst)
           /\ view_is_per_element(ops.edges[e].view)
    /\ \E e \in PerElementCrossEdges(ops) :
           ElementCount(ops, ops.edges[e].src) # ElementCount(ops, ops.edges[e].dst)

(***************************************************************************)
(* C9: running the optimizer pass sequence a second time on its own output *)
(* leaves the graph unchanged up to node renaming.                         *)
(***************************************************************************)
\* the five passes of Graph::new, each after rebuild_ordering: [ops, panic]
optimizer_passes(G) ==
    LET g1 == eliminate_dead_code(G, Topo(G))
        r2 == eliminate_moves(g1, Topo(g1))
        r3 == simplify_arithmetic(r2.ops, Topo(r2.ops))
        r4 == eliminate_common_subgraphs(r3.ops, Topo(r3.ops))
        r5 == make_built_ins_and_literals_unique(r4.ops, Topo(r4.ops))
    IN [ops |-> r5.ops, panic |-> r2.panic \/ r3.panic \/ r4.panic \/ r5.panic]

\* what a node computes, independent of node and edge ids
RECURSIVE NodeSignature(_, _)
NodeSignature(G, n) ==
    LET ins == {e \in edge_ids(G) : G.edges[e].dst = n} IN
    <<G.nodes[n].op, G.nodes[n].shape,
      {<<G.edges[e].arg, G.edges[e].view, NodeSignature(G, G.edges[e].src)>> : e \in ins}>>

SignatureCount(G) ==
    [sig \in {NodeSignature(G, n) : n \in node_ids(G)} |->
        Cardinality({n \in node_ids(G) : NodeSignature(G, n) = sig})]

SameUpToRenaming(G, H) ==
    /\ node_count(G) = node_count(H)
    /\ Cardinality(edge_ids(G)) = Cardinality(edge_ids(H))
    /\ SignatureCount(G) = SignatureCount(H)

C9_PipelineIdempotent ==
    pc = "order_clusters" =>
        /\ ~optimizer_passes(ops).panic
        /\ SameUpToRenaming(optimizer_passes(ops).ops, ops)

(***************************************************************************)
(* C10: after the arithmetic simplification pass, with the move            *)
(* elimination it re-runs, no Mul, Add, UMul or UAdd node has its identity *)
(* literal (1.0, 0.0, 1u, 0u) as a direct argument source.                 *)
(***************************************************************************)
IdentityLiteral ==
    [Mul |-> "1.0", Add |-> "0.0", UMul |-> "1u", UAdd |-> "0u"]

HasIdentityLiteralSource(G, n) ==
    /\ G.nodes[n].op.kind = "Binary"
    /\ G.nodes[n].op.arg \in DOMAIN IdentityLiteral
    /\ \E e \in edge_ids(G) :
           /\ G.edges[e].dst = n
           /\ G.nodes[G.edges[e].src].op = MkOp("Literal", IdentityLiteral[G.nodes[n].op.arg])

C10_NoIdentityLiteralSource ==
    pc = "order_cse" => \A n \in node_ids(ops) : ~HasIdentityLiteralSource(ops, n)

(***************************************************************************)
(* C14: across the passes of Graph::new a node id that was removed is      *)
(* never given to a newly added node (every id a pass adds is past all the *)
(* ids used so far), and a node that survives a pass keeps its id: under   *)
(* the same id it has the same shape and the same op, or the Mov that      *)
(* simplification turned it into.                                          *)
(***************************************************************************)
C14_RemovedIdsNotReused ==
    [][/\ \A n \in node_ids(ops') \ node_ids(ops) : n > Len(ops.nodes)
       /\ \A n \in node_ids(ops') \cap node_ids(ops) :
              /\ ops'.nodes[n].shape = ops.nodes[n].shape
              /\ ops'.nodes[n].op \in {ops.nodes[n].op, OpMov}]_vars

(***************************************************************************)
(* C15 as stated: in the builder's graph and after every optimizer pass    *)
(* the view on each edge has an output_shape equal to the shape its        *)
(* consumer expects for that argument; for a shape-preserving consumer     *)
(* that is the consumer's own shape.                                       *)
(***************************************************************************)
\* the consumer expects its own shape at this argument
ExpectsOwnShape(op, arg) ==
    \/ op.kind \in {"Unary", "Binary", "CompareAndSelect", "Output"}
    \/ op.kind = "Gather" /\ arg = 1
    \/ op.kind = "ScatterAdd" /\ arg = 0

WellShaped(G, e) ==
    ExpectsOwnShape(G.nodes[G.edges[e].dst].op, G.edges[e].arg)
        => G.edges[e].view.output_shape = G.nodes[G.edges[e].dst].shape

ReshapeEdge(G, e) ==
    /\ G.nodes[G.edges[e].dst].op = OpMov
    /\ InEdges(G, G.edges[e].dst) = {<<e, G.edges[e]>>}
    /\ element_count(G.edges[e].view.output_shape)
           = element_count(G.nodes[G.edges[e].dst].shape)

BeforeMoveElimination == pc \in {"order_dce", "dce", "order_moves", "moves"}

EmptyMovs(G) == {n \in node_ids(G) : G.nodes[n].op = OpMov /\ InEdges(G, n) = {}}

Aborted ==
    pc \in {"panic_ordering", "panic_pass", "panic_kernel", "panic_single_node",
            "panic_clusters_sorted"}

C16_EmptySinksLegal ==
    EmptyMovs(ops_in) # {} =>
        /\ ~Aborted
        /\ pc = "order_moves" => EmptyMovs(ops) = {}

(***************************************************************************)
(* C17: once build_clusters has run, to its end or up to a failed          *)
(* assertion, no Input, Output, Literal or BuiltIn node has a cluster_id.  *)
(***************************************************************************)
ClustersBuilt ==
    pc \in {"done", "panic_kernel", "panic_single_node", "panic_clusters_sorted"}

RECURSIVE fuse_log(_, _, _, _, _, _)
fuse_log(G, sorted, rest, cid, element_cnt, log) ==
    IF rest = <<>> THEN [ops |-> G, log |-> log]
    ELSE IF can_absorb(G, sorted, Head(rest), cid, element_cnt)
         THEN fuse_log([G EXCEPT !.nodes[Head(rest)].cluster_id = cid], sorted, sorted, cid,
                       element_cnt,
                       Append(log, [before |-> G, node |-> Head(rest), cid |-> cid]))
         ELSE fuse_log(G, sorted, Tail(rest), cid, element_cnt, log)

RECURSIVE gather_log(_, _, _, _, _)

gather_log_from(r, cid, sorted, rest) == gather_log(r.ops, cid, sorted, rest, r.log)

gather_log(G, cid, sorted, rest, log) ==
    IF rest = <<>> THEN [ops |-> G, log |-> log]
    ELSE IF G.nodes[Head(rest)].cluster_id # 0 \/ ~is_per_element(G.nodes[Head(rest)].op)
         THEN gather_log(G, cid, sorted, Tail(rest), log)
         ELSE gather_log_from(
                  fuse_log([G EXCEPT !.nodes[Head(rest)].cluster_id = cid], sorted, sorted, cid,
                           element_count(G.nodes[Head(rest)].shape), log),
                  cid + 1, sorted, Tail(rest))

Unclustered(G) ==
    [G EXCEPT !.nodes = [n \in DOMAIN G.nodes |-> [G.nodes[n] EXCEPT !.cluster_id = 0]]]

\* the absorptions build_clusters made on the way to the current state
Absorptions == gather_log(Unclustered(ops), 1, ops_sorted, ops_sorted, <<>>).log

\* the clusters of the current state that the first loop formed
PerElementClusters == {c \in DOMAIN clusters : clusters[c].kernel.kind = "PerElement"}

\* the replay of the first loop gives the per-element clusters of the state
ReplayAgrees ==
    ClustersBuilt =>
        \A n \in node_ids(ops) :
            LET c == gather_log(Unclustered(ops), 1, ops_sorted, ops_sorted, <<>>).ops.nodes[n].cluster_id
            IN IF c # 0 THEN ClusterOf(ops, n) = c ELSE ClusterOf(ops, n) \notin PerElementClusters

HasEdge(G, from, to) == <<from, to>> \in OpEdgePairs(G)

\* a descendant of the node outside the cluster has an edge into the cluster
DescendantReenters(G, node, cid) ==
    \E d \in Descendants(OpEdgePairs(G), {node}) \ ({node} \cup Members(G, cid)) :
        \E m \in Members(G, cid) : HasEdge(G, d, m)

\* an ancestor of the node outside the cluster has an edge from the cluster
AncestorReenters(G, node, cid) ==
    \E a \in Ancestors(OpEdgePairs(G), {node}) \ ({node} \cup Members(G, cid)) :
        \E m \in Members(G, cid) : HasEdge(G, m, a)

NoReentry(log) ==
    \A i \in DOMAIN log :
        /\ ~DescendantReenters(log[i].before, log[i].node, log[i].cid)
        /\ ~AncestorReenters(log[i].before, log[i].node, log[i].cid)

\* C24: during per-element fusion a node is absorbed into the open cluster
\* only if no descendant of it outside that cluster, unassigned or in another
\* cluster, has an edge into the cluster and no ancestor of it outside the
\* cluster has an incoming edge from the cluster.
C24_AbsorbedWithoutReentry == ClustersBuilt => NoReentry(Absorptions)

\* the op edges between the node and the members of the cluster
JoiningEdges(G, node, cid) ==
    {e \in edge_ids(G) :
        \/ G.edges[e].src = node /\ G.edges[e].dst \in Members(G, cid)
        \/ G.edges[e].dst = node /\ G.edges[e].src \in Members(G, cid)}

PassedEdgeTest(G, e) == edge_is_per_element(G.edges[e], G.nodes[G.edges[e].dst].op)

JoinedByPerElementEdges(log) ==
    \A i \in DOMAIN log :
        /\ JoiningEdges(log[i].before, log[i].node, log[i].cid) # {}
        /\ \A e \in JoiningEdges(log[i].before, log[i].node, log[i].cid) :
               PassedEdgeTest(log[i].before, e)

\* the op edges with both ends in the same per-element cluster
InnerEdges(G) ==
    {e \in edge_ids(G) :
        /\ ClusterOf(G, G.edges[e].src) \in PerElementClusters
        /\ ClusterOf(G, G.edges[e].src) = ClusterOf(G, G.edges[e].dst)}

\* C25: in every per-element cluster every op edge with both ends in the
\* cluster passed the per-element edge test (OpEdge::is_per_element for the
\* op of its target) when the later of its ends joined, and every member but
\* the first had an edge to or from a member when it joined.
C25_MembersJoinedByPerElementEdges ==
    ClustersBuilt =>
        /\ JoinedByPerElementEdges(Absorptions)
        /\ \A e \in InnerEdges(ops) : PassedEdgeTest(ops, e)
        /\ \A c \in PerElementClusters :
               Cardinality(Members(ops, c)) = 1 + Cardinality({i \in DOMAIN Absorptions : Absorptions[i].cid = c})

\* a node joined a cluster through edges to two of its members, and an edge
\* that fails the test runs between two per-element clusters
C25_Witness ==
    /\ pc = "done"
    /\ \E i \in DOMAIN Absorptions :
           Cardinality(JoiningEdges(Absorptions[i].before, Absorptions[i].node,
                                    Absorptions[i].cid)) >= 2
    /\ \E e \in CrossClusterEdges(ops) :
           /\ ClusterOf(ops, ops.edges[e].src) \in PerElementClusters
           /\ ClusterOf(ops, ops.edges[e].dst) \in PerElementClusters
           /\ ~PassedEdgeTest(ops, e)

(***************************************************************************)
(* The visits of eliminate_moves, in order: the graph when the Mov was      *)
(* visited (before), the Mov, the graph after the visit (after) and        *)
(* whether the visit removed the Mov.                                      *)
(***************************************************************************)
RECURSIVE moves_log(_, _, _)

moves_log_from(r, G, node_id, rest, log) ==
    IF r.panic THEN [ops |-> r.ops, panic |-> TRUE, log |-> log]
    ELSE moves_log(r.ops, rest,
                   Append(log, [before |-> G, node |-> node_id, after |-> r.ops,
                                removed |-> ~contains_node(r.ops, node_id)]))

moves_log(G, sorted, log) ==
    IF sorted = <<>> THEN [ops |-> G, panic |-> FALSE, log |-> log]
    ELSE IF ~contains_node(G, Head(sorted)) THEN [ops |-> G, panic |-> TRUE, log |-> log]
    ELSE IF G.nodes[Head(sorted)].op # OpMov THEN moves_log(G, Tail(sorted), log)
    ELSE moves_log_from(eliminate_move(G, Head(sorted)), G, Head(sorted), Tail(sorted), log)

OutEdges(G, n) == {e \in edge_ids(G) : G.edges[e].src = n}

EdgesInto(G, n, arg) == {e \in edge_ids(G) : G.edges[e].dst = n /\ G.edges[e].arg = arg}

EdgesBetween(G, from, to) == {e \in edge_ids(G) : G.edges[e].src = from /\ G.edges[e].dst = to}

Consumers(G, n) == {G.edges[e].dst : e \in OutEdges(G, n)}

SourcesOf(G, n) == {x[2].src : x \in InEdges(G, n)}

\* the Mov had one source, no Output among its consumers, and each consumer
\* edge became one edge from that source with the same arg
RemovedAsClaimed(ev) ==
    /\ Cardinality(InEdges(ev.before, ev.node)) = 1
    /\ KindsOf(ev.before, {"Output"}) \cap Consumers(ev.before, ev.node) = {}
    /\ \A e \in OutEdges(ev.before, ev.node) :
           /\ Cardinality(EdgesInto(ev.after, ev.before.edges[e].dst, ev.before.edges[e].arg)) = 1
           /\ \A x \in EdgesInto(ev.after, ev.before.edges[e].dst, ev.before.edges[e].arg) :
                  {ev.after.edges[x].src} = SourcesOf(ev.before, ev.node)
    /\ \A t \in Consumers(ev.before, ev.node) : \A s \in SourcesOf(ev.before, ev.node) :
           Cardinality(EdgesBetween(ev.after, s, t)) =
               Cardinality(EdgesBetween(ev.before, s, t))
               + Cardinality(EdgesBetween(ev.before, ev.node, t))

\* the replayed run ended in the graph given and each removal was as claimed
MovesAsClaimed(r, G_after) ==
    /\ ~r.panic => r.ops = G_after
    /\ \A i \in DOMAIN r.log : r.log[i].removed => RemovedAsClaimed(r.log[i])

\* C26: eliminate_moves never removes a Mov that has an Output among its
\* consumers nor a Mov with no incoming edge; when it removes a Mov, each
\* former consumer gets exactly one edge from the source of the Mov with the
\* arg index of the consumer's edge.  (The pass itself and its second run at
\* the end of simplify_arithmetic.)
C26_MovesRemovedSafely ==
    [][/\ pc = "moves" => MovesAsClaimed(moves_log(ops, ops_sorted, <<>>), ops')
       /\ (pc = "simplify" /\ simplify_sweep(ops, ops_sorted, FALSE).mov_added
                           /\ ~simplify_sweep(ops, ops_sorted, FALSE).panic) =>
              MovesAsClaimed(moves_log(simplify_sweep(ops, ops_sorted, FALSE).ops,
                                       ops_sorted, <<>>), ops')]_vars

\* the graph the move-elimination pass started from in this run
BeforeMoves == eliminate_dead_code(ops_in, Topo(ops_in))

MovesRemoved == moves_log(BeforeMoves, Topo(BeforeMoves), <<>>)

\* the pass has removed a Mov whose consumer reads it as arg 1 and has kept
\* a Mov that feeds an Output
C26_Witness ==
    /\ pc = "order_simplify"
    /\ MovesRemoved.ops = ops
    /\ \E i \in DOMAIN MovesRemoved.log :
           /\ MovesRemoved.log[i].removed
           /\ \E e \in OutEdges(MovesRemoved.log[i].before, MovesRemoved.log[i].node) :
                  MovesRemoved.log[i].before.edges[e].arg = 1
    /\ \E n \in KindsOf(ops, {"Unary"}) :
           /\ ops.nodes[n].op = OpMov
           /\ KindsOf(ops, {"Output"}) \cap Consumers(ops, n) # {}

Movs(G) == {n \in KindsOf(G, {"Unary"}) : G.nodes[n].op = OpMov}

FeedsOutput(G, n) == KindsOf(G, {"Output"}) \cap Consumers(G, n) # {}

\* the view of the incoming edge e as eliminate_moves adjusts it for Mov n
AdjustedView(G, e, n) ==
    IF try_from_reshape(G.edges[e].view.output_shape, G.nodes[n].shape) # <<>>
    THEN through(G.edges[e].view,
                 try_from_reshape(G.edges[e].view.output_shape, G.nodes[n].shape)[1], FALSE)
    ELSE G.edges[e].view

\* the one incoming view of Mov n cannot be viewed through one of its
\* outgoing edges
BlockedView(G, n) ==
    \E x \in InEdges(G, n) : \E e \in OutEdges(G, n) :
        ~can_view_through(AdjustedView(G, x[1], n), G.edges[e].view,
                          can_reshape(G.nodes[x[2].src].op))

\* why a visit may leave the Mov in the graph
KeptForCause(ev) ==
    \/ FeedsOutput(ev.before, ev.node)
    \/ Cardinality(InEdges(ev.before, ev.node)) # 1
    \/ BlockedView(ev.before, ev.node)

\* every Mov left in G_after was visited and kept for one of the causes
MovsKeptForCause(r, G_after) ==
    ~r.panic =>
        /\ r.ops = G_after
        /\ \A n \in Movs(G_after) :
               \E i \in DOMAIN r.log :
                   r.log[i].node = n /\ ~r.log[i].removed /\ KeptForCause(r.log[i])

\* C27 as stated: after the move-elimination pass no Unary(Mov) node
\* remains in the op graph.
C27_NoMovRemains == pc = "order_simplify" => Movs(ops) = {}

\* C27, amended: after the move-elimination pass the only Unary(Mov) nodes
\* that remain are those that had, when the pass visited them, an Output
\* among their consumers, not exactly one incoming edge, or an incoming view
\* that cannot be viewed through one of their outgoing edges.
C27_OnlyBlockedMovsRemain ==
    [][pc = "moves" => MovsKeptForCause(moves_log(ops, ops_sorted, <<>>), ops')]_vars

\* the pass has removed a Mov and kept one that has no incoming edge
C27_Witness ==
    /\ pc = "order_simplify"
    /\ MovesRemoved.ops = ops
    /\ \E i \in DOMAIN MovesRemoved.log : MovesRemoved.log[i].removed
    /\ \E n \in Movs(ops) : InEdges(ops, n) = {}

(***************************************************************************)
(* Common-subgraph elimination, from the graph before the pass (G) to the  *)
(* graph after it (H).                                                     *)
(***************************************************************************)
Mergeable(G) == {n \in node_ids(G) : can_merge(G.nodes[n].op)}

SameComputation(G, m, n) ==
    /\ G.nodes[m].op = G.nodes[n].op
    /\ G.nodes[m].shape = G.nodes[n].shape
    /\ get_arg_sources(G, m) = get_arg_sources(G, n)

\* the mergeable nodes of G that compute what n computes
Group(G, n) == {m \in Mergeable(G) : NodeSignature(G, m) = NodeSignature(G, n)}

\* the member of a group that is earliest in the ordering
Earliest(sorted, group) ==
    CHOOSE m \in group : \A k \in group : Position(sorted, m) <= Position(sorted, k)

\* the node that stands for n after the pass
Survivor(G, sorted, n) ==
    IF n \in Mergeable(G) THEN Earliest(sorted, Group(G, n)) ELSE n

NoTwinsLeft(H) ==
    \A m, n \in Mergeable(H) : m # n => ~SameComputation(H, m, n)

OnlyEarliestSurvives(G, sorted, H) ==
    node_ids(H) = {Survivor(G, sorted, n) : n \in node_ids(G)}

\* the survivor has, for each edge that left a member of its group towards a
\* node that is kept, an edge of that arg and view to that node, and no others
CarriesOutEdges(G, sorted, H) ==
    /\ \A e \in edge_ids(G) :
           G.edges[e].dst \in node_ids(H) =>
               \E x \in EdgesBetween(H, Survivor(G, sorted, G.edges[e].src), G.edges[e].dst) :
                   /\ H.edges[x].arg = G.edges[e].arg
                   /\ H.edges[x].view = G.edges[e].view
    /\ \A s \in node_ids(H) :
           Cardinality(OutEdges(H, s)) =
               Cardinality({e \in edge_ids(G) : /\ Survivor(G, sorted, G.edges[e].src) = s
                                                /\ G.edges[e].dst \in node_ids(H)})

\* C28: after eliminate_common_subgraphs no two distinct mergeable nodes
\* have the same op, shape and ordered list of argument sources; of each
\* group of nodes that compute the same thing only the node earliest in
\* ops_sorted survives, and it carries the outgoing edges of all the others.
C28_CommonSubgraphsMerged ==
    [][(pc = "cse" /\ pc' = "order_unique") =>
           /\ NoTwinsLeft(ops')
           /\ OnlyEarliestSurvives(ops, ops_sorted, ops')
           /\ CarriesOutEdges(ops, ops_sorted, ops')]_vars

\* the graph eliminate_common_subgraphs started from in this run
BeforeCse == simplify_arithmetic(MovesRemoved.ops, Topo(MovesRemoved.ops)).ops

\* the pass has merged a group of two nodes that both had consumers, and a
\* consumer of each of them is still in the graph
C28_Witness ==
    /\ pc = "order_unique"
    /\ eliminate_common_subgraphs(BeforeCse, Topo(BeforeCse)).ops = ops
    /\ \E n \in Mergeable(BeforeCse) :
           /\ n \notin node_ids(ops)
           /\ Consumers(BeforeCse, n) \cap node_ids(ops) # {}
           /\ Consumers(BeforeCse, Survivor(BeforeCse, Topo(BeforeCse), n)) \cap node_ids(ops) # {}

RandNodes(G) == {n \in node_ids(G) : G.nodes[n].op \in RandOps}

\* C29: eliminate_common_subgraphs never removes an Output node and never
\* merges two Rand built-in nodes created by different Scope::rand calls:
\* each call has given its node a uid no other call has, so the nodes differ
\* in op and all of them are still in the graph after the pass.
C29_OutputsAndRandsNotMerged ==
    [][pc = "cse" =>
           /\ \A n \in KindsOf(ops, {"Output"}) :
                  n \in node_ids(ops') /\ ops'.nodes[n] = ops.nodes[n]
           /\ \A m, n \in RandNodes(ops) : m # n => ops.nodes[m].op # ops.nodes[n].op
           /\ \A n \in RandNodes(ops) :
                  n \in node_ids(ops') /\ ops'.nodes[n] = ops.nodes[n]]_vars

\* after the pass two Rand nodes of one shape, both without arguments, are
\* in the graph next to an Output
C29_Witness ==
    /\ pc = "order_unique"
    /\ KindsOf(ops, {"Output"}) # {}
    /\ \E m, n \in RandNodes(ops) :
           /\ m # n
           /\ ops.nodes[m].shape = ops.nodes[n].shape
           /\ get_arg_sources(ops, m) = get_arg_sources(ops, n)

(***************************************************************************)
(* make_built_ins_and_literals_unique, from the graph before the pass (G)  *)
(* to the graph after it (H).                                              *)
(***************************************************************************)
LeafOps(G) == KindsOf(G, {"Literal", "BuiltIn"})

\* the edges of G that read a Literal or BuiltIn node
LeafReads(G) == {e \in edge_ids(G) : G.edges[e].src \in LeafOps(G)}

\* the edge e of G is found in H on a copy of its source
OnCopy(G, e, H) ==
    \E x \in EdgesInto(H, G.edges[e].dst, G.edges[e].arg) :
        /\ H.edges[x].view = G.edges[e].view
        /\ H.edges[x].src \in LeafOps(H)
        /\ H.nodes[H.edges[x].src] = G.nodes[G.edges[e].src]

MadeUnique(G, H) ==
    /\ \A n \in LeafOps(H) : Cardinality(OutEdges(H, n)) = 1
    /\ \A e \in LeafReads(G) :
           /\ OnCopy(G, e, H)
           /\ Cardinality(EdgesInto(H, G.edges[e].dst, G.edges[e].arg)) = 1
    /\ Cardinality(LeafOps(H)) = Cardinality(LeafReads(G))
    /\ node_ids(H) \ LeafOps(H) = node_ids(G) \ LeafOps(G)

\* C30: after make_built_ins_and_literals_unique every Literal and BuiltIn
\* node has exactly one outgoing edge, each consumer edge that pointed at the
\* original keeps its arg index and view on its own copy, and the Literal and
\* BuiltIn nodes that had no consumer are gone.
C30_LeavesMadeUnique ==
    [][(pc = "unique" /\ pc' = "order_clusters") => MadeUnique(ops, ops')]_vars

\* the graph make_built_ins_and_literals_unique started from in this run
BeforeUnique == eliminate_common_subgraphs(BeforeCse, Topo(BeforeCse)).ops

\* the pass has split a Literal or BuiltIn node that had two consumer edges
\* and has dropped one that had none
C30_Witness ==
    /\ pc = "order_clusters"
    /\ make_built_ins_and_literals_unique(BeforeUnique, Topo(BeforeUnique)).ops = ops
    /\ \E n \in LeafOps(BeforeUnique) : Cardinality(OutEdges(BeforeUnique, n)) >= 2
    /\ \E n \in LeafOps(BeforeUnique) : OutEdges(BeforeUnique, n) = {}

(***************************************************************************)
(* Argument slots                                                          *)
(***************************************************************************)
ArgsOf(G, n) == {x[2].arg : x \in InEdges(G, n)}

\* the incoming edges of n carry pairwise distinct args that are exactly 0..n-1
ArgsExact(G, n) ==
    /\ Cardinality(ArgsOf(G, n)) = Cardinality(InEdges(G, n))
    /\ ArgsOf(G, n) = 0..(Cardinality(InEdges(G, n)) - 1)

AfterAPass ==
    {"order_moves", "moves", "order_simplify", "simplify", "order_cse", "cse",
     "order_unique", "unique", "order_clusters", "clusters", "done"}

\* the nodes the sweep of simplify_arithmetic turns from Binary into Mov
Rewritten(G, H) == {n \in KindsOf(G, {"Binary"}) : H.nodes[n].op = OpMov}

\* C31: after every optimizer pass the incoming edges of each node carry
\* pairwise distinct arg indices that form exactly 0..n-1; a Binary node
\* rewritten to Mov by simplify_arithmetic has exactly one incoming edge,
\* with arg 0.
C31_ArgSlotsExact ==
    /\ pc \in AfterAPass => \A n \in node_ids(ops) : ArgsExact(ops, n)
    /\ pc = "simplify" =>
           \A n \in Rewritten(ops, simplify_sweep(ops, ops_sorted, FALSE).ops) :
               /\ Cardinality(InEdges(simplify_sweep(ops, ops_sorted, FALSE).ops, n)) = 1
               /\ ArgsOf(simplify_sweep(ops, ops_sorted, FALSE).ops, n) = {0}

\* simplify_arithmetic has rewritten a Binary node whose identity literal was
\* arg 0: the node is a Mov now and its edge, once arg 1, is its only one
C31_Witness ==
    /\ pc = "order_cse"
    /\ simplify_arithmetic(MovesRemoved.ops, Topo(MovesRemoved.ops)).ops = ops
    /\ \E n \in Rewritten(MovesRemoved.ops, ops) :
           \E x \in InEdges(ops, n) :
               /\ x[1] \in edge_ids(MovesRemoved.ops)
               /\ MovesRemoved.ops.edges[x[1]].arg = 1
               /\ x[2].arg = 0

(***************************************************************************)
(* The kernels of the per-element clusters                                 *)
(***************************************************************************)
ValueOps == {"Unary", "Binary", "CompareAndSelect", "Gather"}

\* op i (1-based position, index i - 1) reads only ops of a smaller index
OperandsEarlier(kernel, i) ==
    kernel.ops[i].kind \in ValueOps =>
        \A k \in DOMAIN kernel.ops[i].args :
            kernel.ops[i].args[k] \in 0..(i - 2)

InputIndexValid(kernel, i) ==
    kernel.ops[i].kind \in {"Load", "Gather"} =>
        kernel.ops[i].input_index \in 0..(Len(kernel.inputs) - 1)

\* C32: in every per-element kernel built by build_clusters each operand of
\* a Unary, Binary, CompareAndSelect or Gather op is the index of an op
\* strictly earlier in the kernel's op list, every input_index of a Load or
\* Gather is a valid index into kernel.inputs, and kernel.inputs is as long
\* as cluster.inputs.
C32_KernelOperandsEarlier ==
    ClustersBuilt =>
        \A c \in PerElementClusters :
            /\ Len(clusters[c].kernel.inputs) = Len(clusters[c].inputs)
            /\ \A i \in DOMAIN clusters[c].kernel.ops :
                   /\ OperandsEarlier(clusters[c].kernel, i)
                   /\ InputIndexValid(clusters[c].kernel, i)

\* a kernel with a Gather, whose table is input 0 or later, and with an op
\* that reads the result of another member of the cluster
C32_Witness ==
    /\ pc = "done"
    /\ \E c \in PerElementClusters :
           /\ \E i \in DOMAIN clusters[c].kernel.ops : clusters[c].kernel.ops[i].kind = "Gather"
           /\ \E i \in DOMAIN clusters[c].kernel.ops :
                  /\ clusters[c].kernel.ops[i].kind \in {"Unary", "Binary"}
                  /\ \E k \in DOMAIN clusters[c].kernel.ops[i].args :
                         clusters[c].kernel.ops[clusters[c].kernel.ops[i].args[k] + 1].kind
                             \in ValueOps
           /\ Len(clusters[c].kernel.inputs) >= 2

ClusterOutputs(c) == {clusters[c].outputs[i].node_id : i \in DOMAIN clusters[c].outputs}

UsedOutside(G, n) == \E m \in Consumers(G, n) : ClusterOf(G, m) # ClusterOf(G, n)

\* output i of the cluster names the kernel op that computes its node
OutputIndexed(G, c, i) ==
    /\ clusters[c].kernel.outputs[i] + 1 \in DOMAIN clusters[c].kernel.ops
    /\ clusters[c].kernel.ops[clusters[c].kernel.outputs[i] + 1].kind \in ValueOps
    /\ clusters[c].kernel.ops[clusters[c].kernel.outputs[i] + 1].op
           = G.nodes[clusters[c].outputs[i].node_id].op

\* C33: a member of a per-element cluster is recorded as a cluster output,
\* with its op index in kernel.outputs, if and only if it has an outgoing
\* edge to a node that is not in the same cluster.
C33_OutputsAreValuesUsedOutside ==
    pc = "done" =>
        \A c \in PerElementClusters :
            /\ Len(clusters[c].kernel.outputs) = Len(clusters[c].outputs)
            /\ \A i \in DOMAIN clusters[c].outputs : OutputIndexed(ops, c, i)
            /\ \A n \in Members(ops, c) : n \in ClusterOutputs(c) <=> UsedOutside(ops, n)

(***************************************************************************)
(* The single-node cluster of a ScatterAdd.  initial_state is <<>> for     *)
(* InitialState::Undefined and <<src>> for InitialState::CopyFrom(src).    *)
(***************************************************************************)
\* the source of argument arg of node n
ArgSource(G, n, arg) == CHOOSE x \in InEdges(G, n) : x[2].arg = arg

\* the accumulator of ScatterAdd n is read through a view that is not
\* contiguous and is no Literal
StridedAccumulator(G, n) ==
    /\ ~view_is_contiguous(ArgSource(G, n, 0)[2].view)
    /\ G.nodes[ArgSource(G, n, 0)[2].src].op.kind # "Literal"

ScatterAddCluster(G, n) ==
    /\ ClusterOf(G, n) \in DOMAIN clusters
    /\ Members(G, ClusterOf(G, n)) = {n}
    /\ clusters[ClusterOf(G, n)].kernel.kind = "ScatterAdd"
    /\ clusters[ClusterOf(G, n)].outputs =
           << [node_id |-> n, initial_state |-> <<ArgSource(G, n, 0)[2].src>>] >>
    /\ clusters[ClusterOf(G, n)].inputs =
           <<ArgSource(G, n, 1)[2].src, ArgSource(G, n, 2)[2].src>>

\* C34: every ScatterAdd node becomes a single-node cluster whose only
\* output carries CopyFrom(source of arg 0) and whose inputs are the sources
\* of arg 1 and arg 2; building aborts if the arg-0 view is not contiguous
\* and the arg-0 source is no Literal; all other cluster outputs carry
\* Undefined.
C34_ScatterAddCopiesAccumulator ==
    pc = "done" =>
        /\ \A n \in KindsOf(ops, {"ScatterAdd"}) :
               ScatterAddCluster(ops, n) /\ ~StridedAccumulator(ops, n)
        /\ \A c \in DOMAIN clusters : \A i \in DOMAIN clusters[c].outputs :
               clusters[c].kernel.kind # "ScatterAdd" =>
                   clusters[c].outputs[i].initial_state = <<>>

\* a ScatterAdd cluster whose accumulator is computed by another cluster,
\* which has an output of its own
C34_Witness ==
    /\ pc = "done"
    /\ \E n \in KindsOf(ops, {"ScatterAdd"}) :
           /\ ClusterOf(ops, ArgSource(ops, n, 0)[2].src) # 0
           /\ clusters[ClusterOf(ops, ArgSource(ops, n, 0)[2].src)].outputs # <<>>

(***************************************************************************)
(* Termination.  Graph::new is straight-line code: while it has neither    *)
(* returned nor aborted, control moves on.  Every step of Next changes pc, *)
(* so this is weak fairness of the steps that change pc.                   *)
(***************************************************************************)
\* Graph::new has returned or aborted
Terminated ==
    pc \in {"done", "panic_ordering", "panic_pass", "panic_kernel", "panic_single_node",
            "panic_clusters_sorted"}

\* the positions from which a call or a pass is still to be made
Running ==
    pc \in OrderSteps \cup {"dce", "moves", "simplify", "cse", "unique", "clusters"}

ControlMoves == Running /\ pc' \in {after_order(p) : p \in OrderSteps} \cup OrderSteps \cup {"done"}

SpecLive == Init /\ [][Next]_vars /\ WF_pc(ControlMoves)

\* every restart of the fusion scan gave a cluster to a node that had none
RestartsAssign(log) ==
    /\ \A i \in DOMAIN log : log[i].before.nodes[log[i].node].cluster_id = 0
    /\ \A i, j \in DOMAIN log : i # j => log[i].node # log[j].node
    /\ Len(log) <= node_count(ops)

\* C35: Graph::new terminates on every finite acyclic op graph; in
\* build_clusters every restart of the fusion scan assigns one more node to a
\* cluster, so there are at most as many restarts as nodes.
C35_GraphNewTerminates ==
    /\ [](Running \/ Terminated)
    /\ <>Terminated
    /\ [](ClustersBuilt => RestartsAssign(Absorptions))

\* Graph::new has returned after a fusion scan that was restarted twice
C35_Witness == pc = "done" /\ Len(Absorptions) >= 2

(***************************************************************************)
(* Schedule::any_successor (schedule.rs), applied to the op graphs and     *)
(* orderings of the pipeline.                                              *)
(***************************************************************************)
\* ops_sorted is the ordering of ops
Ordered == pc \in {after_order(p) : p \in OrderSteps}

\* the nodes reached from root along one or more edges
ReachedFrom(G, root) == Descendants(OpEdgePairs(G), Succs(OpEdgePairs(G), {root}))

\* C39: Schedule::any_successor(roots, f) evaluates f on every node that is
\* reachable from a root along one or more edges: if f is true on exactly
\* one such node, direct or indirect successor, the call returns true.
C39_AnySuccessorSeesIndirect ==
    Ordered =>
        \A root \in node_ids(ops) : \A n \in ReachedFrom(ops, root) :
            Schedule_any_successor(ops, ops_sorted, {root}, {n})

(***************************************************************************)
(* The builder as a state machine: one action per call on a Scope, an      *)
(* Array or a DualArray.  A call takes its operands among the arrays and   *)
(* dual arrays earlier calls returned; a failed assertion or unwrap ends   *)
(* the run (call.aborted).                                                 *)
(***************************************************************************)
MaxCalls == 4

GraphIdle ==
    /\ ops = EmptyGraph
    /\ ops_in = EmptyGraph
    /\ ops_sorted = <<>>
    /\ clusters = <<>>
    /\ clusters_sorted = <<>>
    /\ pc = "builder"

BuilderInit == BuilderIdle /\ GraphIdle /\ HeapIdle

CanCall == hist.calls < MaxCalls /\ ~call.aborted

Called(name, p, args, ret, aborted) ==
    [name |-> name, p |-> p, args |-> args, ret |-> ret, aborted |-> aborted]

\* the call handed a new dual array (value and gradient sink) to the caller
WithDual(h, dual) ==
    [h EXCEPT !.calls = @ + 1,
              !.arrays = @ \cup {dual.value_node_id, dual.loss_grad_node_id},
              !.duals = @ \cup {dual},
              !.sinks = @ \cup {dual.loss_grad_node_id}]

CallLiteral ==
    /\ CanCall
    /\ scope' = Scope_literal(scope, "1.0")
    /\ call' = Called("literal", "-", <<>>, Scope_literal_dual(scope, "1.0").value_node_id, FALSE)
    /\ hist' = WithDual(hist, Scope_literal_dual(scope, "1.0"))
    /\ UNCHANGED graph_vars
    /\ UNCHANGED heap_vars

CallParameter ==
    /\ CanCall
    /\ \E p \in Parameters :
           LET r == Scope_parameter(scope, p) IN
           /\ scope' = r.st
           /\ call' = Called("parameter", p, <<>>, r.dual.value_node_id, r.panic)
           /\ hist' = IF r.panic THEN [hist EXCEPT !.calls = @ + 1]
                      ELSE WithDual(hist, r.dual)
    /\ UNCHANGED graph_vars
    /\ UNCHANGED heap_vars

CallParameterValue ==
    /\ CanCall
    /\ \E p \in Parameters :
           /\ scope' = Scope_parameter_value(scope, p)
           /\ call' = Called("parameter_value", p, <<>>, scope'.ret, FALSE)
           /\ hist' = [hist EXCEPT !.calls = @ + 1, !.arrays = @ \cup {scope'.ret}]
    /\ UNCHANGED graph_vars
    /\ UNCHANGED heap_vars

CallWriteParameterValue ==
    /\ CanCall
    /\ \E p \in Parameters, rhs \in hist.arrays :
           IF scope.ops.nodes[rhs].shape # parameter_shape(p)
           THEN /\ call' = Called("write_parameter_value", p, <<rhs>>, 0, TRUE)
                /\ hist' = [hist EXCEPT !.calls = @ + 1]
                /\ UNCHANGED scope
           ELSE /\ scope' = Scope_write_parameter_value(scope, p, rhs)
                /\ call' = Called("write_parameter_value", p, <<rhs>>, 0, FALSE)
                /\ hist' = [hist EXCEPT !.calls = @ + 1, !.written[p] = rhs]
    /\ UNCHANGED graph_vars
    /\ UNCHANGED heap_vars

CallAccumulator ==
    /\ CanCall
    /\ \E shape \in {<<1>>, <<MaxDim>>} :
           /\ scope' = Scope_accumulator(scope, shape)
           /\ call' = Called("accumulator", "-", <<>>, scope'.ret, FALSE)
           /\ hist' = [hist EXCEPT !.calls = @ + 1, !.arrays = @ \cup {scope'.ret},
                                   !.sinks = @ \cup {scope'.ret}]
    /\ UNCHANGED graph_vars
    /\ UNCHANGED heap_vars

CallAccumulate ==
    /\ CanCall
    /\ \E self \in hist.arrays, src \in hist.arrays :
           IF \/ scope.ops.nodes[self].op # OpMov
              \/ scope.ops.nodes[self].shape # scope.ops.nodes[src].shape
           THEN /\ call' = Called("accumulate", "-", <<self, src>>, 0, TRUE)
                /\ hist' = [hist EXCEPT !.calls = @ + 1]
                /\ UNCHANGED scope
           ELSE /\ scope' = Array_accumulate(scope, self, src)
                /\ call' = Called("accumulate", "-", <<self, src>>, 0, FALSE)
                /\ hist' = [hist EXCEPT !.calls = @ + 1,
                                        !.accumulated = Append(@, [sink |-> self, src |-> src])]
    /\ UNCHANGED graph_vars
    /\ UNCHANGED heap_vars

CallSetLoss ==
    /\ CanCall
    /\ \E dual \in hist.duals :
           LET r == DualArray_set_loss(scope, dual) IN
           /\ scope' = r.st
           /\ call' = Called("set_loss", "-", <<dual.value_node_id, dual.loss_grad_node_id>>,
                             dual.value_node_id, r.panic)
           /\ hist' = IF r.panic THEN [hist EXCEPT !.calls = @ + 1]
                      ELSE [hist EXCEPT !.calls = @ + 1,
                                        !.seeded = @ \cup {dual.loss_grad_node_id}]
    /\ UNCHANGED graph_vars
    /\ UNCHANGED heap_vars

CallNeg ==
    /\ CanCall
    /\ \E a \in hist.arrays :
           /\ scope' = Array_unary_op(scope, a, "Neg")
           /\ call' = Called("neg", "-", <<a>>, scope'.ret, FALSE)
           /\ hist' = [hist EXCEPT !.calls = @ + 1, !.arrays = @ \cup {scope'.ret}]
    /\ UNCHANGED graph_vars
    /\ UNCHANGED heap_vars

BuilderNext ==
    \/ CallLiteral
    \/ CallParameter
    \/ CallParameterValue
    \/ CallWriteParameterValue
    \/ CallAccumulator
    \/ CallAccumulate
    \/ CallSetLoss
    \/ CallNeg

SpecBuilder == BuilderInit /\ [][BuilderNext]_vars

(***************************************************************************)
(* Relations on the builder's graph used by the properties                 *)
(***************************************************************************)
InEdgeIds(G, n) == {e \in edge_ids(G) : G.edges[e].dst = n}

\* the sources accumulated into a sink, in call order
Contributions(sink) ==
    LET log == SelectSeq(hist.accumulated, LAMBDA r : r.sink = sink) IN
    [i \in 1..Len(log) |-> log[i].src]

IdentityEdge(G, e, arg) ==
    /\ G.edges[e].arg = arg
    /\ G.edges[e].view = identity_view(G.nodes[G.edges[e].src].shape)

\* node is the left-nested sum of the contributions cs: cs[1] itself, or an Add
\* the caller never held, of the sum of the earlier contributions and the last one
RECURSIVE AddChain(_, _, _)
AddChain(G, node, cs) ==
    IF Len(cs) = 1 THEN node = cs[1]
    ELSE /\ G.nodes[node].op = MkOp("Binary", "Add")
         /\ node \notin hist.arrays
         /\ Cardinality(InEdgeIds(G, node)) = 2
         /\ \E e0, e1 \in InEdgeIds(G, node) :
                /\ IdentityEdge(G, e0, 0)
                /\ IdentityEdge(G, e1, 1)
                /\ G.edges[e1].src = cs[Len(cs)]
                /\ AddChain(G, G.edges[e0].src, SubSeq(cs, 1, Len(cs) - 1))

(***************************************************************************)
(* C11: a gradient sink created empty has at most one incoming edge at all *)
(* times; after the first accumulate call the edge comes from the          *)
(* contribution, at arg 0 with an identity view, and after each later call *)
(* from a new Add of the previous source (arg 0) and the new contribution  *)
(* (arg 1): k calls leave a left-nested chain of k-1 Adds in call order.   *)
(***************************************************************************)
C11_AccumulateChain ==
    /\ \A s \in hist.sinks : Cardinality(InEdgeIds(scope.ops, s)) <= 1
    /\ \A s \in hist.sinks \ hist.seeded :
           /\ Contributions(s) = <<>> => InEdgeIds(scope.ops, s) = {}
           /\ Contributions(s) # <<>> =>
                  \E e \in InEdgeIds(scope.ops, s) :
                      /\ IdentityEdge(scope.ops, e, 0)
                      /\ AddChain(scope.ops, scope.ops.edges[e].src, Contributions(s))

C11_Witness ==
    \E s \in hist.sinks \ hist.seeded :
        /\ Len(Contributions(s)) = 3
        /\ Contributions(s)[1] # Contributions(s)[2]

(***************************************************************************)
(* C12: a read of a parameter (parameter_value or parameter) never aborts; *)
(* made after a write of the parameter it returns the node of the most     *)
(* recent write, and made before any write it returns the one Input node   *)
(* of the parameter.                                                       *)
(***************************************************************************)
InputNodes(G, p) == {n \in node_ids(G) : G.nodes[n].op = MkOp("Input", p)}

C12_ReadsSeeNewestWrite ==
    call.name \in {"parameter", "parameter_value"} =>
        /\ ~call.aborted
        /\ IF hist.written[call.p] # 0
           THEN call.ret = hist.written[call.p]
           ELSE InputNodes(scope.ops, call.p) = {call.ret}

(***************************************************************************)
(* C13: at most one gradient sink is ever seeded by set_loss; right after  *)
(* set_loss the sink has exactly one incoming edge, from the literal       *)
(* 1/minibatch_size broadcast to the gradient shape.                       *)
(***************************************************************************)
\* the only edge into sink comes from a broadcast of the literal 1/minibatch_size
SeededByLiteral(G, sink) ==
    /\ Cardinality(InEdgeIds(G, sink)) = 1
    /\ \E e \in InEdgeIds(G, sink), b \in edge_ids(G) :
           /\ IdentityEdge(G, e, 0)
           /\ G.edges[b].dst = G.edges[e].src
           /\ InEdgeIds(G, G.edges[e].src) = {b}
           /\ G.nodes[G.edges[b].src].op =
                  MkOp("Literal", mini_batch_scale(G.nodes[sink].shape[1]))
           /\ G.edges[b].view = view_broadcast(<<1>>, G.nodes[sink].shape)

C13_SingleSeededSink ==
    /\ Cardinality(hist.seeded) <= 1
    /\ (call.name = "set_loss" /\ ~call.aborted) => SeededByLiteral(scope.ops, call.args[2])

(***************************************************************************)
(* The allocator as a state machine: one action per call on a Heap.  Each  *)
(* extend_with brings a new arena; free takes a block an earlier alloc     *)
(* returned and that was not freed since.  A call that aborts or never     *)
(* returns ends the run (heap.status).                                     *)
(***************************************************************************)
MaxArenas == 4

MaxHeapCalls == 6

ArenaSizes == {8, 12, 16}

AllocSizes == {1, 3, 12}

Aligns == {1, 4}

HeapInit == HeapIdle /\ BuilderIdle /\ GraphIdle

CanHeapCall == heap_call.n < MaxHeapCalls /\ heap.status = "ok"

HeapCalled(name, size, align, block_id, offset) ==
    [n |-> heap_call.n + 1, name |-> name, size |-> size, align |-> align,
     block_id |-> block_id, offset |-> offset,
     blocks_before |-> Cardinality(block_ids(heap))]

\* the calls so far after an alloc: the block it returned, as it was returned
HeapReturned(r) ==
    IF r.block_id = 0 THEN heap_hist
    ELSE [heap_hist EXCEPT
             !.live = @ \cup {r.block_id},
             !.returned = @ \cup {[block_id |-> r.block_id, n |-> heap_call.n + 1,
                                   arena |-> r.heap.blocks[r.block_id].arena,
                                   range |-> r.heap.blocks[r.block_id].range]}]

HeapExtendWith ==
    /\ CanHeapCall
    /\ Len(heap_hist.arenas) < MaxArenas
    /\ \E size \in ArenaSizes :
           /\ heap' = extend_with(heap, Len(heap_hist.arenas) + 1, size)
           /\ heap_call' = HeapCalled("extend_with", size, 0, 0, 0)
           /\ heap_hist' = [heap_hist EXCEPT !.arenas = Append(@, size)]
    /\ UNCHANGED graph_vars
    /\ UNCHANGED builder_vars

HeapAlloc ==
    /\ CanHeapCall
    /\ \E size \in AllocSizes, align \in Aligns :
           /\ heap' = alloc(heap, size, align).heap
           /\ heap_call' = HeapCalled("alloc", size, align, alloc(heap, size, align).block_id,
                                      alloc(heap, size, align).offset)
           /\ heap_hist' = HeapReturned(alloc(heap, size, align))
    /\ UNCHANGED graph_vars
    /\ UNCHANGED builder_vars

HeapFree ==
    /\ CanHeapCall
    /\ \E block_id \in heap_hist.live :
           /\ heap' = free(heap, block_id)
           /\ heap_call' = HeapCalled("free", 0, 0, block_id, 0)
           /\ heap_hist' = [heap_hist EXCEPT !.live = @ \ {block_id},
                                            !.returned = {r \in @ : r.block_id # block_id}]
    /\ UNCHANGED graph_vars
    /\ UNCHANGED builder_vars

HeapNext == HeapExtendWith \/ HeapAlloc \/ HeapFree

SpecHeap == HeapInit /\ [][HeapNext]_vars

(***************************************************************************)
(* Properties of the allocator (specification SpecHeap).                   *)
(***************************************************************************)
HeapOk == heap.status = "ok"

BlocksOf(h, arena) == {id \in block_ids(h) : h.blocks[id].arena = arena}

AdjacentFree(h) ==
    \E first, second \in block_ids(h) :
        /\ first # second
        /\ can_append(h.blocks[first], h.blocks[second])
        /\ is_free(h, first)
        /\ is_free(h, second)

\* C18: after any sequence of extend_with, alloc and free calls no two blocks
\* of one arena that are adjacent in address order (first.end = second.begin)
\* are both free.
C18_NoAdjacentFreeBlocks == HeapOk => ~AdjacentFree(heap)

\* a free has merged the block with its free successor and into its free
\* predecessor while another block stays allocated
C18_Witness ==
    /\ HeapOk
    /\ heap_call.name = "free"
    /\ Cardinality(block_ids(heap)) = heap_call.blocks_before - 2
    /\ heap_hist.live # {}

\* the arena is one free block that covers it
WholeArenaFree(h, arena, size) ==
    \E id \in block_ids(h) :
        /\ BlocksOf(h, arena) = {id}
        /\ is_free(h, id)
        /\ h.blocks[id].range = Range_new(0, size)

AllFreed == HeapOk /\ heap_hist.live = {}

\* C19: once every block alloc returned has been freed, each arena is a
\* single free block covering [0, arena size) and alloc(arena size, align)
\* succeeds again.
C19_AllFreedRestoresArenas ==
    AllFreed =>
        \A arena \in 1..Len(heap_hist.arenas) :
            /\ WholeArenaFree(heap, arena, heap_hist.arenas[arena])
            /\ \A align \in Aligns : alloc(heap, heap_hist.arenas[arena], align).block_id # 0

\* the blocks met from the head of a free list by following next_id
RECURSIVE free_list_walk(_, _, _)
free_list_walk(h, block_id, seen) ==
    IF block_id \in seen \/ ~contains_key(h, block_id) THEN seen
    ELSE free_list_walk(h, h.blocks[block_id].free_node.next_id, seen \cup {block_id})

\* the bytes [begin, end) of the arena are a free block kept on the free
\* list of its size class
RegisteredFree(h, arena, begin, end) ==
    \E id \in BlocksOf(h, arena) :
        /\ h.blocks[id].range = Range_new(begin, end)
        /\ is_free(h, id)
        /\ free_list_index(end - begin) < Len(h.free_lists)
        /\ id \in free_list_walk(h, h.free_lists[free_list_index(end - begin) + 1], {})

\* the block of h is free and [offset, offset + size) lies inside it
Holds(h, id, arena, offset, size) ==
    /\ is_free(h, id)
    /\ h.blocks[id].arena = arena
    /\ h.blocks[id].range.begin <= offset
    /\ offset + size <= h.blocks[id].range.end

Carved(h_before, h, block_id, offset, size, align) ==
    /\ offset % align = 0
    /\ contains_key(h, block_id)
    /\ ~is_free(h, block_id)
    /\ h.blocks[block_id].range = Range_new(offset, offset + size)
    /\ \E id \in block_ids(h_before) :
           /\ Holds(h_before, id, h.blocks[block_id].arena, offset, size)
           /\ h_before.blocks[id].range.begin < offset =>
                  RegisteredFree(h, h.blocks[block_id].arena,
                                 h_before.blocks[id].range.begin, offset)
           /\ offset + size < h_before.blocks[id].range.end =>
                  RegisteredFree(h, h.blocks[block_id].arena,
                                 offset + size, h_before.blocks[id].range.end)

\* C20: whenever alloc(size, align) with a power-of-two align returns
\* Some((block, offset)), offset is a multiple of align, the range of the
\* block is exactly [offset, offset + size) inside what was one free block,
\* and the unused bytes before and after it in that free block are
\* registered as free blocks.
C20_AllocCarvesAlignedBlock ==
    [][(heap_call'.name = "alloc" /\ heap_call'.block_id # 0) =>
           Carved(heap, heap', heap_call'.block_id, heap_call'.offset,
                  heap_call'.size, heap_call'.align)]_vars

\* an alloc has returned a block cut out of the middle of a free block: the
\* bytes skipped for alignment and the bytes left over are both free
C20_Witness ==
    /\ HeapOk
    /\ heap_call.name = "alloc"
    /\ heap_call.block_id # 0
    /\ heap_call.align > 1
    /\ Cardinality(block_ids(heap)) = heap_call.blocks_before + 2
    /\ \E first \in block_ids(heap) :
           /\ is_free(heap, first)
           /\ can_append(heap.blocks[first], heap.blocks[heap_call.block_id])
    /\ \E second \in block_ids(heap) :
           /\ is_free(heap, second)
           /\ can_append(heap.blocks[heap_call.block_id], heap.blocks[second])

Disjoint(first, second) == first.end <= second.begin \/ second.end <= first.begin

\* C21: from the alloc that returns a block until the free of that block its
\* arena and range stay as returned, whatever other alloc, free and
\* extend_with calls are made, and the ranges of two blocks of one arena that
\* are allocated at the same time are disjoint.
C21_AllocatedBlocksStable ==
    HeapOk =>
        /\ \A r \in heap_hist.returned :
               /\ contains_key(heap, r.block_id)
               /\ ~is_free(heap, r.block_id)
               /\ heap.blocks[r.block_id].arena = r.arena
               /\ heap.blocks[r.block_id].range = r.range
        /\ \A first, second \in heap_hist.live :
               (first # second /\ heap.blocks[first].arena = heap.blocks[second].arena) =>
                   Disjoint(heap.blocks[first].range, heap.blocks[second].range)

\* a block has stayed allocated over three later calls, the last of them a
\* free that merged blocks, with two arenas and other blocks in its own arena
C21_Witness ==
    /\ HeapOk
    /\ heap_call.name = "free"
    /\ Cardinality(block_ids(heap)) < heap_call.blocks_before
    /\ \E r \in heap_hist.returned :
           /\ heap_call.n >= r.n + 3
           /\ Cardinality(BlocksOf(heap, r.arena)) > 1
           /\ Len(heap_hist.arenas) > 1

\* the blocks on the free list of the index
OnFreeList(h, index) == free_list_walk(h, h.free_lists[index + 1], {})

FreeListIndices(h) == 0..(Len(h.free_lists) - 1)

MaxArenaSize == CHOOSE size \in ArenaSizes : \A other \in ArenaSizes : other <= size

\* C22 as stated: a free block of size s is kept on the free list of index
\* ceil(log2(s)), that is free_list_index(s) = ceil(log2(s)) for every
\* s >= 1, exact powers of two included.
C22_IndexIsCeilLog2 ==
    HeapOk =>
        /\ \A s \in 1..MaxArenaSize : free_list_index(s) = CeilLog2(s)
        /\ \A index \in FreeListIndices(heap) : \A id \in OnFreeList(heap, index) :
               index = CeilLog2(Range_size(heap.blocks[id].range))

\* the block is free in h and was not in h_before, or not with this range
BecameFree(h_before, h, id) ==
    /\ is_free(h, id)
    /\ \/ ~contains_key(h_before, id)
       \/ ~is_free(h_before, id)
       \/ h_before.blocks[id].range # h.blocks[id].range

\* the block is the head of the free list of the index or the one after it
\* (alloc registers up to two blocks)
RegisteredOn(h, id, index) ==
    /\ index < Len(h.free_lists)
    /\ h.free_lists[index + 1] # 0
    /\ contains_key(h, h.free_lists[index + 1])
    /\ id \in {h.free_lists[index + 1], h.blocks[h.free_lists[index + 1]].free_node.next_id}

\* C22, amended: a block of size s (s >= 1) that becomes free is registered
\* on the free list whose index is floor(log2(s)) + 1, that is
\* free_list_index(s) = floor(log2(s)) + 1 for every s, exact powers of two
\* included.
C22_IndexIsBitLength ==
    [][(heap.status = "ok" /\ heap'.status = "ok") =>
           /\ \A s \in 1..MaxArenaSize : free_list_index(s) = FloorLog2(s) + 1
           /\ \A id \in block_ids(heap') :
                  BecameFree(heap, heap', id) =>
                      RegisteredOn(heap', id, FloorLog2(Range_size(heap'.blocks[id].range)) + 1)]_vars

FreeSizesOnLists(h) ==
    {Range_size(h.blocks[id].range) :
        id \in UNION {OnFreeList(h, index) : index \in FreeListIndices(h)}}

\* free blocks of size 1, of another power of two and of a size that is no
\* power of two are on the free lists
C22_Witness ==
    /\ HeapOk
    /\ 1 \in FreeSizesOnLists(heap)
    /\ FreeSizesOnLists(heap) \cap {2, 4, 8} # {}
    /\ FreeSizesOnLists(heap) \cap {3, 5, 6, 7} # {}

\* the aligned request fits into the block
Fits(h, id, size, align) ==
    aligned(h.blocks[id].range.begin, align) + size <= h.blocks[id].range.end

SizeClass(h, id) == free_list_index(Range_size(h.blocks[id].range))

\* the free block of h_before the returned bytes were taken from
TakenFrom(h_before, h, block_id, offset, size) ==
    {id \in block_ids(h_before) : Holds(h_before, id, h.blocks[block_id].arena, offset, size)}

\* C23: alloc(size, align) is best-fit by size class: the block it returns is
\* taken from the lowest-indexed free list, at or above the size class of
\* the request, that holds a free block into which the aligned request fits;
\* it never uses a block of a higher-indexed list while such a block exists
\* on a lower-indexed one.
C23_BestFitBySizeClass ==
    [][(heap_call'.name = "alloc" /\ heap_call'.block_id # 0) =>
           \A taken \in TakenFrom(heap, heap', heap_call'.block_id, heap_call'.offset,
                                  heap_call'.size) :
               /\ SizeClass(heap, taken) >= free_list_index(heap_call'.size)
               /\ ~\E id \in block_ids(heap) :
                      /\ is_free(heap, id)
                      /\ Fits(heap, id, heap_call'.size, heap_call'.align)
                      /\ SizeClass(heap, id) >= free_list_index(heap_call'.size)
                      /\ SizeClass(heap, id) < SizeClass(heap, taken)]_vars


FreeBlocks(h) == {id \in block_ids(h) : is_free(h, id)}

\* the neighbours of free block b on its list are free blocks that point back at b
LinkedBothWays(h, b) ==
    /\ h.blocks[b].free_node.prev_id \in FreeBlocks(h)
    /\ h.blocks[b].free_node.next_id \in FreeBlocks(h)
    /\ h.blocks[h.blocks[b].free_node.prev_id].free_node.next_id = b
    /\ h.blocks[h.blocks[b].free_node.next_id].free_node.prev_id = b

\* C36: after any sequence of extend_with, alloc and free calls every free
\* list is a consistent circular doubly-linked list: for each free block b,
\* next(prev(b)) = b and prev(next(b)) = b, and the blocks reached from the
\* head of list i along next_id are exactly the free blocks whose size maps
\* to index i.
C36_FreeListsConsistent ==
    HeapOk =>
        /\ \A b \in FreeBlocks(heap) : LinkedBothWays(heap, b)
        /\ \A i \in FreeListIndices(heap) :
               OnFreeList(heap, i) = {b \in FreeBlocks(heap) : SizeClass(heap, b) = i}


\* a free block of h can hold size bytes at an offset aligned to align
CanHold(h, size, align) == \E id \in FreeBlocks(h) : Fits(h, id, size, align)

\* C37: in every reachable heap state alloc(size, align) with size >= 1 and a
\* power-of-two align returns Some whenever at least one free block can hold
\* the request at an aligned offset inside its range.
C37_AllocFindsFittingBlock ==
    [][(heap.status = "ok" /\ heap_call'.name = "alloc"
            /\ CanHold(heap, heap_call'.size, heap_call'.align)) =>
           (heap'.status = "ok" /\ heap_call'.block_id # 0)]_vars


\* C38: in every reachable heap state, a heap never extended included,
\* alloc(size, align) with no free block able to hold the request returns
\* None and leaves the blocks and the free lists unchanged; alloc, and free
\* of a currently allocated block, never abort.
C38_AllocAndFreeNeverAbort ==
    [][(heap.status = "ok" /\ heap_call'.n # heap_call.n
            /\ heap_call'.name \in {"alloc", "free"}) =>
           /\ heap'.status = "ok"
           /\ (heap_call'.name = "alloc"
                   /\ ~CanHold(heap, heap_call'.size, heap_call'.align)) =>
                  /\ heap_call'.block_id = 0
                  /\ heap'.blocks = heap.blocks
                  /\ heap'.free_lists = heap.free_lists]_vars

====
